---- MODULE Spec2Model ----
(***************************************************************************)
(* Model of the request admission, pacing and resilience pipeline of       *)
(* ai-smart-client: RateLimitManager (sliding window), ThrottleManager,    *)
(* RetryManager (retry loop with capped exponential backoff) and the       *)
(* OpenAIClientService methods prompt / promptStream that compose them.    *)
(*                                                                         *)
(* Time is the value of Date.now() in ms.  Every `await` of the source is  *)
(* a boundary between two actions; the code between two awaits runs in one *)
(* action (single-threaded event loop).  A timer may fire late, never      *)
(* early.                                                                  *)
(***************************************************************************)
EXTENDS Integers, Sequences, FiniteSets, TLC

VARIABLES
    \* RetryManager fields (constructor parameters)
    enabled, maxAttempts, baseDelay, maxDelay,
    \* RateLimitManager fields
    requestsPerMinute, tokensPerMinute, requestTimestamps, tokenTimestamps,
    \* ThrottleManager fields
    requestDelay, useJitter, jitterFactor, lastRequestTime,
    \* Date.now() and the number of clock advances made so far
    now, ticks,
    \* one logical call per request id: its position, the retry loop's locals
    \* and the value the returned promise settled with
    pc, kind, input, attempt, lastError, wakeAt, outcome, result,
    \* the stream being consumed by processStream and its accumulator
    stream, fullContent,
    \* history of what each call did (observation only, never read by the code)
    fnCalls, fnReturns, failures, handlerArgs, sleeps, throttlePasses, rlSleeps,
    upstreamStarts, attemptErrors, chunksSeen,
    \* every recordRequest call made so far: when, with which argument, by
    \* which call and at which place of the code
    recordLog,
    \* the most recent call made directly on the RateLimitManager
    lastCall

cfgVars == <<enabled, maxAttempts, baseDelay, maxDelay, requestsPerMinute,
             tokensPerMinute, requestDelay, useJitter, jitterFactor>>
rlVars == <<requestTimestamps, tokenTimestamps>>
clockVars == <<now, ticks>>
callVars == <<pc, kind, input, attempt, lastError, wakeAt, outcome, result,
              stream, fullContent>>
histVars == <<fnCalls, fnReturns, failures, handlerArgs, sleeps, throttlePasses,
              rlSleeps, upstreamStarts, attemptErrors, chunksSeen, recordLog>>
vars == <<cfgVars, rlVars, lastRequestTime, clockVars, callVars, histVars, lastCall>>

----------------------------------------------------------------------------
\* Bounds of the model

\* number of logical calls issued one after the other on the one client
NumReq == 3
\* largest maxAttempts explored for a client (the validator admits 1..10)
MaxAttemptsClient == 2
\* largest maxAttempts explored for a RetryManager on its own
MaxAttemptsCfg == 3
\* number of clock advances in one behaviour
MaxTicks == 3
\* stand-in for the epoch offset of Date.now() at construction
StartTime == 100000
\* largest requestsPerMinute explored
MaxRpm == 2
\* number of standalone RateLimitManager.recordRequest calls in one behaviour
MaxRecords == 3

Requests == 1..NumReq

\* an optional number that was not given (validated limits are all >= 1)
Undefined == 0

----------------------------------------------------------------------------
\* Program constants

RATE_LIMIT_WINDOW_MS == 60000
THROTTLE_CHECK_INTERVAL_MS == 1000
CHARS_PER_TOKEN == 4
DEFAULT_ESTIMATED_MAX_TOKENS == 1000
DEFAULT_BASE_RETRY_DELAY_MS == 1000
DEFAULT_MAX_RETRY_DELAY_MS == 60000
MIN_RETRY_ATTEMPTS == 1

TOO_MANY_REQUESTS == 429
INTERNAL_SERVER_ERROR == 500
BAD_GATEWAY == 502
SERVICE_UNAVAILABLE == 503
GATEWAY_TIMEOUT == 504
BAD_REQUEST == 400
UNAUTHORIZED == 401
FORBIDDEN == 403
NOT_FOUND == 404

\* The clock advances by one poll interval or by just under one window.
Deltas == {THROTTLE_CHECK_INTERVAL_MS, RATE_LIMIT_WINDOW_MS - THROTTLE_CHECK_INTERVAL_MS}

\* Math.random() in hundredths: 0 <= u < 100
RandomDraws == {0, 99}

----------------------------------------------------------------------------
\* Thrown values.  type is "Error" for an Error object, "object" for another
\* object, "string" for a thrown string; status is the value of its status
\* (or statusCode) field, Undefined when it has none; marks is the set of
\* keywords that occur in its message (for an Error) or in the string.

NoError == [type |-> "none", status |-> Undefined, statusCode |-> Undefined,
            marks |-> {}]

\* a thrown value with a status field (Undefined: no such field)
Err(t, s, m) == [type |-> t, status |-> s, statusCode |-> Undefined, marks |-> m]

\* a thrown value with a statusCode field and no status field
ErrStatusCode(t, sc, m) ==
    [type |-> t, status |-> Undefined, statusCode |-> sc, marks |-> m]

E503 == Err("Error", SERVICE_UNAVAILABLE, {"503"})
E429 == Err("Error", TOO_MANY_REQUESTS, {"429", "rate limit"})
E400 == Err("Error", BAD_REQUEST, {"400"})
E401 == Err("Error", UNAUTHORIZED, {"401"})
ETimeout == Err("Error", Undefined, {"timeout"})
EReset == Err("Error", Undefined, {"ECONNRESET"})
EPlain == Err("Error", Undefined, {})
SNetwork == Err("string", Undefined, {"network error"})
OGateway == Err("object", BAD_GATEWAY, {})
ESchema == Err("Error", Undefined, {"does not match expected schema"})

\* the Error parseAndValidateOutput throws on a ZodError: its message is
\* "OpenAI response does not match expected schema: " followed by the
\* report, path and message of every issue; report holds the keywords that
\* occur in those paths and messages
ESchemaReport(report) ==
    Err("Error", Undefined, {"does not match expected schema"} \cup report)

\* Failures the generic attempt function of executeWithRetry may throw.
FnErrors == {E503, E429, E400, E401, ETimeout, EReset, EPlain, SNetwork, OGateway}

\* Failures the upstream create-completion call may throw.
UpstreamErrors == {E503, E400, SNetwork}

\* RetryManager.getErrorMessage: error.message, or String(error); the result
\* is represented by the keywords it contains ("[object Object]" has none).
getErrorMessage(error) ==
    IF error.type = "Error" THEN error.marks
    ELSE IF error.type = "string" THEN error.marks
    ELSE {}

\* String.prototype.includes on a message for one keyword: "network" is a
\* substring of "network error".
Includes(msg, k) ==
    \/ k \in msg
    \/ k = "network" /\ "network error" \in msg

getErrorCodeStatusOnly(error) ==
    IF error.type \in {"Error", "object"} THEN error.status ELSE Undefined

\* RetryManager.getErrorCode
getErrorCode(error) ==
    IF error.type \in {"Error", "object"}
    THEN IF error.status # Undefined THEN error.status ELSE error.statusCode
    ELSE Undefined

\* RetryManager.isRetriableError
isRetriableError(error) ==
    LET errorMessage == getErrorMessage(error)
        errorCode == getErrorCode(error)
    IN  \/ errorCode = TOO_MANY_REQUESTS
        \/ Includes(errorMessage, "rate limit")
        \/ Includes(errorMessage, "429")
        \/ Includes(errorMessage, "timeout")
        \/ Includes(errorMessage, "timed out")
        \/ errorCode \in {INTERNAL_SERVER_ERROR, BAD_GATEWAY,
                          SERVICE_UNAVAILABLE, GATEWAY_TIMEOUT}
        \/ Includes(errorMessage, "500")
        \/ Includes(errorMessage, "502")
        \/ Includes(errorMessage, "503")
        \/ Includes(errorMessage, "504")
        \/ Includes(errorMessage, "ECONNREFUSED")
        \/ Includes(errorMessage, "ENOTFOUND")
        \/ Includes(errorMessage, "ETIMEDOUT")
        \/ Includes(errorMessage, "ECONNRESET")
        \/ Includes(errorMessage, "network error")

\* A settled PromptResponse: its status tag and its error message (the
\* keywords of the message; DefaultMessage for DEFAULT_ERROR_MESSAGES.UNKNOWN;
\* NoMessage when the response has no error field).
NoMessage == {"<no error field>"}
DefaultMessage == {"An unknown error occurred"}
NoResult == [status |-> "none", error |-> NoMessage, content |-> <<>>]
Response(s, e, c) == [status |-> s, error |-> e, content |-> c]

buildErrorResponseAsSuccess(error) == Response("success", NoMessage, <<>>)

buildErrorResponseLastMatch(error) ==
    IF error.type = "Error"
    THEN LET errorMessage == error.marks
             status ==
                 IF \/ Includes(errorMessage, "API")
                    \/ Includes(errorMessage, "400")
                    \/ Includes(errorMessage, "401")
                    \/ Includes(errorMessage, "403")
                    \/ Includes(errorMessage, "500")
                 THEN "api_error"
                 ELSE IF \/ Includes(errorMessage, "network")
                         \/ Includes(errorMessage, "ECONNREFUSED")
                         \/ Includes(errorMessage, "ENOTFOUND")
                 THEN "network_error"
                 ELSE IF \/ Includes(errorMessage, "timeout")
                         \/ Includes(errorMessage, "timed out")
                 THEN "timeout_error"
                 ELSE IF \/ Includes(errorMessage, "rate limit")
                         \/ Includes(errorMessage, "429")
                 THEN "rate_limit_error"
                 ELSE IF Includes(errorMessage, "does not match expected schema")
                 THEN "validation_error"
                 ELSE "unknown_error"
         IN  Response(status, errorMessage, <<>>)
    ELSE Response("unknown_error", DefaultMessage, <<>>)

\* OpenAIClientService.buildErrorResponse
buildErrorResponse(error) ==
    IF error.type = "Error"
    THEN LET errorMessage == error.marks
             status ==
                 IF Includes(errorMessage, "does not match expected schema")
                 THEN "validation_error"
                 ELSE IF \/ Includes(errorMessage, "rate limit")
                         \/ Includes(errorMessage, "429")
                 THEN "rate_limit_error"
                 ELSE IF \/ Includes(errorMessage, "timeout")
                         \/ Includes(errorMessage, "timed out")
                 THEN "timeout_error"
                 ELSE IF \/ Includes(errorMessage, "network")
                         \/ Includes(errorMessage, "ECONNREFUSED")
                         \/ Includes(errorMessage, "ENOTFOUND")
                 THEN "network_error"
                 ELSE IF \/ Includes(errorMessage, "API")
                         \/ Includes(errorMessage, "400")
                         \/ Includes(errorMessage, "401")
                         \/ Includes(errorMessage, "403")
                         \/ Includes(errorMessage, "500")
                 THEN "api_error"
                 ELSE "unknown_error"
         IN  Response(status, errorMessage, <<>>)
    ELSE Response("unknown_error", DefaultMessage, <<>>)

Min(a, b) == IF a < b THEN a ELSE b
Max(a, b) == IF a > b THEN a ELSE b

RECURSIVE Pow2(_)
Pow2(n) == IF n = 0 THEN 1 ELSE 2 * Pow2(n - 1)

calculateDelayUncapped(attemptIndex, u) ==
    LET exponentialDelay == baseDelay * Pow2(attemptIndex)
    IN  exponentialDelay + ((u * 25 * exponentialDelay) \div 10000)

calculateDelayWideJitter(attemptIndex, u) ==
    LET exponentialDelay == baseDelay * Pow2(attemptIndex)
        cappedDelay == Min(exponentialDelay, maxDelay)
    IN  cappedDelay + ((u * 50 * cappedDelay) \div 10000)

\* RetryManager.calculateDelay with Math.random() = u / 100
calculateDelay(attemptIndex, u) ==
    LET exponentialDelay == baseDelay * Pow2(attemptIndex)
        cappedDelay == Min(exponentialDelay, maxDelay)
    IN  cappedDelay + ((u * 25 * cappedDelay) \div 10000)

----------------------------------------------------------------------------
\* RateLimitManager

InWindowInclusive(ts, t) == ts >= t - RATE_LIMIT_WINDOW_MS

InWindowShort(ts, t) == ts > t - THROTTLE_CHECK_INTERVAL_MS

\* the filter predicate of canMakeRequest called at time t: `ts > oneMinuteAgo`
InWindow(ts, t) == ts > t - RATE_LIMIT_WINDOW_MS

\* requestTimestamps / tokenTimestamps after canMakeRequest's clean-up at time t
PrunedRequests(t) == SelectSeq(requestTimestamps, LAMBDA ts : InWindow(ts, t))
PrunedTokensNone(t) == tokenTimestamps

PrunedTokens(t) == SelectSeq(tokenTimestamps, LAMBDA e : InWindow(e.timestamp, t))

RECURSIVE SumTokens(_)
\* tokenTimestamps.reduce((sum, t) => sum + t.tokens, 0)
SumTokens(toks) ==
    IF toks = <<>> THEN 0 ELSE toks[1].tokens + SumTokens(Tail(toks))

isRequestRateLimitExceededStrict(reqs) ==
    requestsPerMinute # Undefined /\ Len(reqs) > requestsPerMinute

isRequestRateLimitExceededNoUndefined(reqs) ==
    Len(reqs) >= requestsPerMinute

\* RateLimitManager.isRequestRateLimitExceeded, on the pruned sequence
isRequestRateLimitExceeded(reqs) ==
    requestsPerMinute # Undefined /\ Len(reqs) >= requestsPerMinute

isTokenRateLimitExceededNoZero(toks, estimatedTokens) ==
    IF tokensPerMinute = Undefined
    THEN FALSE
    ELSE SumTokens(toks) + estimatedTokens > tokensPerMinute

isTokenRateLimitExceededRecordedOnly(toks, estimatedTokens) ==
    IF tokensPerMinute = Undefined \/ estimatedTokens = 0
    THEN FALSE
    ELSE SumTokens(toks) > tokensPerMinute

\* RateLimitManager.isTokenRateLimitExceeded, on the pruned sequence
isTokenRateLimitExceeded(toks, estimatedTokens) ==
    IF tokensPerMinute = Undefined \/ estimatedTokens = 0
    THEN FALSE
    ELSE SumTokens(toks) + estimatedTokens > tokensPerMinute

\* arguments explored for canMakeRequest and recordRequest (0: omitted or 0)
EstimateChoices == {0, 1000, 2000}
UsageChoices == {0, 1000}
TokenLimitChoices == {Undefined, 2500}

canMakeRequestValueAlways(estimatedTokens) == TRUE

\* the value RateLimitManager.canMakeRequest(estimatedTokens) returns now
canMakeRequestValue(estimatedTokens) ==
    /\ ~isRequestRateLimitExceeded(PrunedRequests(now))
    /\ ~isTokenRateLimitExceeded(PrunedTokens(now), estimatedTokens)

canMakeRequestReserving ==
    /\ requestTimestamps' = Append(PrunedRequests(now), now)
    /\ tokenTimestamps' = PrunedTokens(now)

\* the effect of RateLimitManager.canMakeRequest on the two sequences
canMakeRequest ==
    /\ requestTimestamps' = PrunedRequests(now)
    /\ tokenTimestamps' = PrunedTokens(now)

recordRequestAlwaysTokens(tokensUsed, by, place) ==
    /\ requestTimestamps' = Append(requestTimestamps, now)
    /\ tokenTimestamps' =
           Append(tokenTimestamps, [timestamp |-> now, tokens |-> tokensUsed])
    /\ recordLog' = Append(recordLog,
           [at |-> now, tokens |-> tokensUsed, by |-> by, place |-> place])

\* RateLimitManager.recordRequest(tokensUsed), called by `by` at `place`
recordRequest(tokensUsed, by, place) ==
    /\ requestTimestamps' = Append(requestTimestamps, now)
    /\ tokenTimestamps' =
           IF tokensUsed > 0
           THEN Append(tokenTimestamps, [timestamp |-> now, tokens |-> tokensUsed])
           ELSE tokenTimestamps
    /\ recordLog' = Append(recordLog,
           [at |-> now, tokens |-> tokensUsed, by |-> by, place |-> place])

\* new RateLimitManager(requestsPerMinute, tokensPerMinute) with limits that
\* ConfigValidator.validateRateLimits accepts
RateLimitInit ==
    /\ requestsPerMinute \in {Undefined} \cup 1..MaxRpm
    /\ tokensPerMinute \in TokenLimitChoices
    /\ requestTimestamps = <<>>
    /\ tokenTimestamps = <<>>

----------------------------------------------------------------------------
\* Clock

\* positions at which a call's continuation is ready to run: it was called,
\* or it awaits a promise that is already resolved
Ready == {"callFn", "throttled", "admitted"}

\* Time passes between two turns of the event loop, once no continuation is
\* ready to run.
Tick ==
    /\ ticks < MaxTicks
    /\ \A r \in Requests : pc[r] \notin Ready
    /\ \E d \in Deltas : now' = now + d
    /\ ticks' = ticks + 1
    /\ UNCHANGED <<cfgVars, rlVars, lastRequestTime, callVars, histVars, lastCall>>

----------------------------------------------------------------------------
\* RetryManager.executeWithRetry(fn, onError), for the call with id r.
\*   pc = "idle"      not called yet
\*   pc = "callFn"    the next statement is `await fn()`
\*   pc = "fn..."     fn is running (positions of fn, see each fn below)
\*   pc = "backoff"   awaiting this.sleep(delay)
\*   pc = "done"      the returned promise has settled (outcome, result)

Set(f, r, v) == [f EXCEPT ![r] = v]

\* the returned promise resolves with value v
Resolve(r, v) ==
    /\ pc' = Set(pc, r, "done")
    /\ outcome' = Set(outcome, r, "resolved")
    /\ result' = Set(result, r, v)

\* `return onError(error)`
ReturnOnError(r, error) ==
    /\ handlerArgs' = Set(handlerArgs, r, Append(handlerArgs[r], error))
    /\ Resolve(r, buildErrorResponse(error))

LoopContinuesOneMore(att) == att <= maxAttempts

LoopContinuesOneLess(att) == att < maxAttempts - 1

\* the for-loop's condition
LoopContinues(att) == att < maxAttempts

HasAttemptsLeftAlways(att) == TRUE

\* `if (attempt < this.maxAttempts - 1)`
HasAttemptsLeft(att) == att < maxAttempts - 1

\* `attempt++`, the loop's test, and what follows it: the next `await fn()`
\* or, after the loop, `return onError(lastError)`
NextIteration(r, last) ==
    /\ attempt' = Set(attempt, r, attempt[r] + 1)
    /\ IF LoopContinues(attempt[r] + 1)
       THEN /\ pc' = Set(pc, r, "callFn")
            /\ UNCHANGED <<outcome, result, handlerArgs>>
       ELSE ReturnOnError(r, last)

RetryDisabledNever == FALSE

\* `if (!this.enabled)`
RetryDisabled == ~enabled

CatchAssignKeepFirst(old, error) == IF old = NoError THEN error ELSE old

\* `lastError = error`: the value lastError holds after the assignment
CatchAssign(old, error) == error

ShouldStopNever(error) == FALSE

\* `if (!this.isRetriableError(error))`
ShouldStop(error) == ~isRetriableError(error)

\* fn() rejected with error: the catch blocks of executeWithRetry
FnThrew(r, error) ==
    /\ failures' = Set(failures, r, Append(failures[r], error))
    /\ UNCHANGED fnReturns
    /\ IF RetryDisabled
       THEN /\ ReturnOnError(r, error)
            /\ UNCHANGED <<attempt, lastError, wakeAt, sleeps>>
       ELSE /\ lastError' = Set(lastError, r, CatchAssign(lastError[r], error))
            /\ IF ShouldStop(error)
               THEN /\ ReturnOnError(r, error)
                    /\ UNCHANGED <<attempt, wakeAt, sleeps>>
               ELSE IF HasAttemptsLeft(attempt[r])
               THEN /\ \E u \in RandomDraws :
                         LET delay == calculateDelay(attempt[r], u)
                         IN  /\ wakeAt' = Set(wakeAt, r, now + delay)
                             /\ sleeps' = Set(sleeps, r, Append(sleeps[r],
                                    [index |-> attempt[r], delay |-> delay]))
                    /\ pc' = Set(pc, r, "backoff")
                    /\ UNCHANGED <<attempt, outcome, result, handlerArgs>>
               ELSE /\ NextIteration(r, lastError'[r])
                    /\ UNCHANGED <<wakeAt, sleeps>>

\* fn() resolved with value v: `return await fn()`
FnReturned(r, v) ==
    /\ Resolve(r, v)
    /\ fnReturns' = Set(fnReturns, r, fnReturns[r] + 1)
    /\ UNCHANGED <<attempt, lastError, wakeAt, failures, handlerArgs, sleeps>>

\* the backoff timer fires; the loop goes on
BackoffWake(r) ==
    /\ pc[r] = "backoff"
    /\ now >= wakeAt[r]
    /\ NextIteration(r, lastError[r])
    /\ UNCHANGED <<cfgVars, rlVars, lastRequestTime, clockVars, kind, input,
                   lastError, wakeAt, stream, fullContent, fnCalls, fnReturns,
                   failures, sleeps,
                   throttlePasses, rlSleeps, upstreamStarts, attemptErrors, chunksSeen,
                   recordLog, lastCall>>

----------------------------------------------------------------------------
\* executeWithRetry around a generic attempt function (kind "raw"): the
\* attempt function settles, some time after it was invoked, with a success
\* value or with any of FnErrors; the error handler is buildErrorResponse.

\* the one generic call explored
RetryCalls == {1}

SuccessValue == Response("success", NoMessage, <<>>)

\* executeWithRetry is entered; both branches start with `await fn()`
RawCall(r) ==
    /\ pc[r] = "idle"
    /\ pc' = Set(pc, r, "callFn")
    /\ UNCHANGED <<cfgVars, rlVars, lastRequestTime, clockVars, kind, input,
                   attempt, lastError, wakeAt, outcome, result, stream,
                   fullContent, histVars, lastCall>>

RawFnInvoke(r) ==
    /\ pc[r] = "callFn"
    /\ kind[r] = "raw"
    /\ pc' = Set(pc, r, "fnPending")
    /\ fnCalls' = Set(fnCalls, r, fnCalls[r] + 1)
    /\ UNCHANGED <<cfgVars, rlVars, lastRequestTime, clockVars, kind, input,
                   attempt, lastError, wakeAt, outcome, result, stream,
                   fullContent, fnReturns, failures, handlerArgs, sleeps,
                   throttlePasses,
                   rlSleeps, upstreamStarts, attemptErrors, chunksSeen, recordLog, lastCall>>

RawFnResolves(r) ==
    /\ pc[r] = "fnPending"
    /\ FnReturned(r, SuccessValue)
    /\ UNCHANGED <<cfgVars, rlVars, lastRequestTime, clockVars, kind, input,
                   stream, fullContent, fnCalls, throttlePasses, rlSleeps,
                   upstreamStarts, attemptErrors, chunksSeen, recordLog, lastCall>>

RawFnRejects(r) ==
    /\ pc[r] = "fnPending"
    /\ \E error \in FnErrors : FnThrew(r, error)
    /\ UNCHANGED <<cfgVars, rlVars, lastRequestTime, clockVars, kind, input,
                   stream, fullContent, fnCalls, throttlePasses, rlSleeps,
                   upstreamStarts, attemptErrors, chunksSeen, recordLog, lastCall>>

\* Values the fields and histories have before any call
CallsInit(k) ==
    /\ pc = [r \in Requests |-> "idle"]
    /\ kind \in [Requests -> k]
    /\ attempt = [r \in Requests |-> 0]
    /\ lastError = [r \in Requests |-> NoError]
    /\ wakeAt = [r \in Requests |-> 0]
    /\ outcome = [r \in Requests |-> "pending"]
    /\ result = [r \in Requests |-> NoResult]
    /\ stream = [r \in Requests |-> <<>>]
    /\ fullContent = [r \in Requests |-> <<>>]
    /\ fnCalls = [r \in Requests |-> 0]
    /\ fnReturns = [r \in Requests |-> 0]
    /\ failures = [r \in Requests |-> <<>>]
    /\ handlerArgs = [r \in Requests |-> <<>>]
    /\ sleeps = [r \in Requests |-> <<>>]
    /\ throttlePasses = [r \in Requests |-> 0]
    /\ rlSleeps = [r \in Requests |-> 0]
    /\ recordLog = <<>>
    /\ upstreamStarts = [r \in Requests |-> <<>>]
    /\ attemptErrors = [r \in Requests |-> <<>>]
    /\ chunksSeen = [r \in Requests |-> <<>>]

\* new RetryManager(enabled, maxAttempts, baseDelay, maxDelay) with settings
\* that ConfigValidator.validateRetrySettings accepts
RetryInit ==
    /\ enabled \in BOOLEAN
    /\ maxAttempts \in MIN_RETRY_ATTEMPTS..MaxAttemptsCfg
    /\ baseDelay = DEFAULT_BASE_RETRY_DELAY_MS
    /\ maxDelay \in {DEFAULT_BASE_RETRY_DELAY_MS, DEFAULT_MAX_RETRY_DELAY_MS}

NoInput == [totalChars |-> 0, maxTokens |-> Undefined, outputSchema |-> FALSE,
            reportMarks |-> {}]

InitRetry ==
    /\ RetryInit
    /\ requestsPerMinute = Undefined
    /\ tokensPerMinute = Undefined
    /\ requestTimestamps = <<>>
    /\ tokenTimestamps = <<>>
    /\ requestDelay = Undefined
    /\ useJitter = FALSE
    /\ jitterFactor = 0
    /\ lastRequestTime = 0
    /\ now = StartTime
    /\ ticks = 0
    /\ CallsInit({"raw"})
    /\ input = [r \in Requests |-> NoInput]
    /\ lastCall = [op |-> "none", arg |-> 0, at |-> 0, ret |-> FALSE]

NextRetry ==
    \/ Tick
    \/ \E r \in RetryCalls : RawCall(r)
    \/ \E r \in RetryCalls : RawFnInvoke(r)
    \/ \E r \in RetryCalls : RawFnResolves(r)
    \/ \E r \in RetryCalls : RawFnRejects(r)
    \/ \E r \in RetryCalls : BackoffWake(r)

SpecRetry == InitRetry /\ [][NextRetry]_vars

----------------------------------------------------------------------------
\* DelayUtils / ThrottleManager

DEFAULT_JITTER_FACTOR == 30

calculateDelayWithJitter10000OneSided(delay, jitterOn, factor, u) ==
    IF ~jitterOn
    THEN delay * 10000
    ELSE Max(0, delay * 10000 + (2 * u) * (delay * factor))

\* DelayUtils.calculateDelayWithJitter (ThrottleManager.calculateDelay), with
\* the jitter factor in hundredths and Math.random() = u / 100; the value
\* returned, in 1/10000 ms
calculateDelayWithJitter10000(delay, jitterOn, factor, u) ==
    IF ~jitterOn
    THEN delay * 10000
    ELSE LET jitterAmount100 == delay * factor
             randomJitter10000 == (2 * u - 100) * jitterAmount100
         IN  Max(0, delay * 10000 + randomJitter10000)

calculateDelayWithJitterHalf(delay, jitterOn, factor, u) == delay \div 2

calculateDelayWithJitterDouble(delay, jitterOn, factor, u) ==
    calculateDelayWithJitter10000(delay, jitterOn, 2 * factor, u) \div 10000

\* the whole milliseconds a timer set with that value waits at least
calculateDelayWithJitter(delay, jitterOn, factor, u) ==
    calculateDelayWithJitter10000(delay, jitterOn, factor, u) \div 10000

----------------------------------------------------------------------------
\* OpenAIClientService.prompt and promptStream.  Positions of fn, the
\* attempt function they hand to executeWithRetry:
\*   "throttleSleep"  in throttle(), awaiting the sleep
\*   "throttled"      throttle() has returned; next is waitForRateLimit
\*   "rlSleep"        in waitForRateLimit, awaiting the poll sleep
\*   "admitted"       waitForRateLimit has returned; next is recordRequest
\*   "upstream"       awaiting client.chat.completions.create
\*   "streaming"      in processStream, awaiting the next chunk

ClientKinds == {"prompt", "stream"}

\* the PromptInputs explored: what estimateTokens and the output parser read
\* (reportMarks: the keywords that the field names and messages of the
\* schema's validation report contain)
InputChoices ==
    {[totalChars |-> 6, maxTokens |-> Undefined, outputSchema |-> FALSE,
      reportMarks |-> {}],
     [totalChars |-> 6, maxTokens |-> Undefined, outputSchema |-> TRUE,
      reportMarks |-> {}]}

\* the streams the upstream may deliver: the content of each chunk's delta
StreamChoices == {<<"a", "", "b">>}

\* Math.ceil(totalChars / CHARS_PER_TOKEN)
CeilDiv(a, b) == (a + b - 1) \div b

\* OpenAIClientService.estimateTokens
estimateTokens(in) ==
    LET maxTokensUsed == IF in.maxTokens # Undefined THEN in.maxTokens
                         ELSE DEFAULT_ESTIMATED_MAX_TOKENS
    IN  CeilDiv(in.totalChars, CHARS_PER_TOKEN) + maxTokensUsed

\* OpenAIClientService.prompt(input) / promptStream(input, onChunk): the call
\* enters executeWithRetry, whose two branches start with `await fn()`.
\* Calls are numbered in the order in which they are issued.
prompt(r) ==
    /\ pc[r] = "idle"
    /\ kind[r] \in ClientKinds
    /\ \A q \in 1..(r - 1) : pc[q] # "idle"
    /\ pc' = Set(pc, r, "callFn")
    /\ UNCHANGED <<cfgVars, rlVars, lastRequestTime, clockVars, kind, input,
                   attempt, lastError, wakeAt, outcome, result, stream,
                   fullContent, histVars, lastCall>>

\* the same call, issued after every earlier call has been awaited
promptAwaited(r) ==
    /\ \A q \in 1..(r - 1) : pc[q] = "done"
    /\ prompt(r)

FnEnterReserving(r) ==
    /\ pc[r] = "callFn"
    /\ kind[r] \in ClientKinds
    /\ fnCalls' = Set(fnCalls, r, fnCalls[r] + 1)
    /\ IF requestDelay = Undefined
       THEN /\ pc' = Set(pc, r, "throttled")
            /\ throttlePasses' = Set(throttlePasses, r, throttlePasses[r] + 1)
            /\ UNCHANGED <<lastRequestTime, wakeAt>>
       ELSE LET timeSinceLastRequest == now - lastRequestTime
            IN  IF timeSinceLastRequest < requestDelay
                THEN /\ \E u \in RandomDraws :
                          wakeAt' = Set(wakeAt, r, now + calculateDelayWithJitter(
                                        requestDelay - timeSinceLastRequest,
                                        useJitter, jitterFactor, u))
                     /\ lastRequestTime' = wakeAt'[r]
                     /\ pc' = Set(pc, r, "throttleSleep")
                     /\ UNCHANGED throttlePasses
                ELSE /\ lastRequestTime' = now
                     /\ pc' = Set(pc, r, "throttled")
                     /\ throttlePasses' = Set(throttlePasses, r, throttlePasses[r] + 1)
                     /\ UNCHANGED wakeAt
    /\ UNCHANGED <<cfgVars, rlVars, clockVars, kind, input, attempt, lastError,
                   outcome, result, stream, fullContent, fnReturns, failures,
                   handlerArgs, sleeps, rlSleeps, upstreamStarts, attemptErrors,
                   chunksSeen, recordLog, lastCall>>

FnEnterStamping(r) ==
    /\ pc[r] = "callFn"
    /\ kind[r] \in ClientKinds
    /\ fnCalls' = Set(fnCalls, r, fnCalls[r] + 1)
    /\ IF requestDelay = Undefined
       THEN /\ pc' = Set(pc, r, "throttled")
            /\ throttlePasses' = Set(throttlePasses, r, throttlePasses[r] + 1)
            /\ lastRequestTime' = now
            /\ UNCHANGED wakeAt
       ELSE LET timeSinceLastRequest == now - lastRequestTime
            IN  IF timeSinceLastRequest < requestDelay
                THEN /\ \E u \in RandomDraws :
                          wakeAt' = Set(wakeAt, r, now + calculateDelayWithJitter(
                                        requestDelay - timeSinceLastRequest,
                                        useJitter, jitterFactor, u))
                     /\ pc' = Set(pc, r, "throttleSleep")
                     /\ UNCHANGED <<lastRequestTime, throttlePasses>>
                ELSE /\ lastRequestTime' = now
                     /\ pc' = Set(pc, r, "throttled")
                     /\ throttlePasses' = Set(throttlePasses, r, throttlePasses[r] + 1)
                     /\ UNCHANGED wakeAt
    /\ UNCHANGED <<cfgVars, rlVars, clockVars, kind, input, attempt, lastError,
                   outcome, result, stream, fullContent, fnReturns, failures,
                   handlerArgs, sleeps, rlSleeps, upstreamStarts, attemptErrors,
                   chunksSeen, recordLog, lastCall>>

\* fn is invoked: executeWithRateLimiting calls throttle(), which returns at
\* once, or sets lastRequestTime and returns, or starts its sleep
FnEnter(r) ==
    /\ pc[r] = "callFn"
    /\ kind[r] \in ClientKinds
    /\ fnCalls' = Set(fnCalls, r, fnCalls[r] + 1)
    /\ IF requestDelay = Undefined
       THEN /\ pc' = Set(pc, r, "throttled")
            /\ throttlePasses' = Set(throttlePasses, r, throttlePasses[r] + 1)
            /\ UNCHANGED <<lastRequestTime, wakeAt>>
       ELSE LET timeSinceLastRequest == now - lastRequestTime
            IN  IF timeSinceLastRequest < requestDelay
                THEN /\ \E u \in RandomDraws :
                          wakeAt' = Set(wakeAt, r, now + calculateDelayWithJitter(
                                        requestDelay - timeSinceLastRequest,
                                        useJitter, jitterFactor, u))
                     /\ pc' = Set(pc, r, "throttleSleep")
                     /\ UNCHANGED <<lastRequestTime, throttlePasses>>
                ELSE /\ lastRequestTime' = now
                     /\ pc' = Set(pc, r, "throttled")
                     /\ throttlePasses' = Set(throttlePasses, r, throttlePasses[r] + 1)
                     /\ UNCHANGED wakeAt
    /\ UNCHANGED <<cfgVars, rlVars, clockVars, kind, input, attempt, lastError,
                   outcome, result, stream, fullContent, fnReturns, failures,
                   handlerArgs, sleeps, rlSleeps, upstreamStarts, attemptErrors,
                   chunksSeen, recordLog, lastCall>>

ThrottleWakeScheduled(r) ==
    /\ pc[r] = "throttleSleep"
    /\ now >= wakeAt[r]
    /\ lastRequestTime' = wakeAt[r]
    /\ pc' = Set(pc, r, "throttled")
    /\ throttlePasses' = Set(throttlePasses, r, throttlePasses[r] + 1)
    /\ UNCHANGED <<cfgVars, rlVars, clockVars, kind, input, attempt, lastError,
                   wakeAt, outcome, result, stream, fullContent, fnCalls,
                   fnReturns, failures, handlerArgs, sleeps, rlSleeps,
                   upstreamStarts, attemptErrors, chunksSeen, recordLog, lastCall>>

\* throttle(): the sleep is over; `this.lastRequestTime = Date.now()`
ThrottleWake(r) ==
    /\ pc[r] = "throttleSleep"
    /\ now >= wakeAt[r]
    /\ lastRequestTime' = now
    /\ pc' = Set(pc, r, "throttled")
    /\ throttlePasses' = Set(throttlePasses, r, throttlePasses[r] + 1)
    /\ UNCHANGED <<cfgVars, rlVars, clockVars, kind, input, attempt, lastError,
                   wakeAt, outcome, result, stream, fullContent, fnCalls,
                   fnReturns, failures, handlerArgs, sleeps, rlSleeps,
                   upstreamStarts, attemptErrors, chunksSeen, recordLog, lastCall>>

\* one turn of waitForRateLimit's loop: canMakeRequest, then return or sleep
waitForRateLimit(r) ==
    /\ canMakeRequest
    /\ IF canMakeRequestValue(estimateTokens(input[r]))
       THEN /\ pc' = Set(pc, r, "admitted")
            /\ UNCHANGED <<wakeAt, rlSleeps>>
       ELSE /\ pc' = Set(pc, r, "rlSleep")
            /\ wakeAt' = Set(wakeAt, r, now + THROTTLE_CHECK_INTERVAL_MS)
            /\ rlSleeps' = Set(rlSleeps, r, rlSleeps[r] + 1)
    /\ UNCHANGED <<cfgVars, lastRequestTime, clockVars, kind, input, attempt,
                   lastError, outcome, result, stream, fullContent, fnCalls,
                   fnReturns, failures, handlerArgs, sleeps, throttlePasses,
                   upstreamStarts, attemptErrors, chunksSeen, recordLog, lastCall>>

\* executeWithRateLimiting goes on after `await throttle()`
RateLimitEnter(r) ==
    /\ pc[r] = "throttled"
    /\ waitForRateLimit(r)

RateLimitWakeOnce(r) ==
    /\ pc[r] = "rlSleep"
    /\ now >= wakeAt[r]
    /\ canMakeRequest
    /\ pc' = Set(pc, r, "admitted")
    /\ UNCHANGED <<cfgVars, lastRequestTime, clockVars, kind, input, attempt,
                   lastError, wakeAt, outcome, result, stream, fullContent,
                   fnCalls, fnReturns, failures, handlerArgs, sleeps,
                   throttlePasses, rlSleeps, upstreamStarts, attemptErrors,
                   chunksSeen, recordLog, lastCall>>

RateLimitWakeStrict(r) ==
    /\ pc[r] = "rlSleep"
    /\ now > wakeAt[r]
    /\ waitForRateLimit(r)

\* waitForRateLimit's poll timer fires
RateLimitWake(r) ==
    /\ pc[r] = "rlSleep"
    /\ now >= wakeAt[r]
    /\ waitForRateLimit(r)

\* executeWithRateLimiting goes on after `await waitForRateLimit(...)`:
\* recordRequest(estimatedTokens), then fn() up to the upstream call
Admitted(r) ==
    /\ pc[r] = "admitted"
    /\ recordRequest(estimateTokens(input[r]), r, "estimate")
    /\ upstreamStarts' = Set(upstreamStarts, r, Append(upstreamStarts[r], now))
    /\ pc' = Set(pc, r, "upstream")
    /\ UNCHANGED <<cfgVars, lastRequestTime, clockVars, kind, input, attempt,
                   lastError, wakeAt, outcome, result, stream, fullContent,
                   fnCalls, fnReturns, failures, handlerArgs, sleeps,
                   throttlePasses, rlSleeps, attemptErrors, chunksSeen, lastCall>>

\* the catch block of fn: a retriable error is thrown on to executeWithRetry,
\* any other error is returned as an error response
FnCaught(r, error) ==
    /\ attemptErrors' = Set(attemptErrors, r, Append(attemptErrors[r], error))
    /\ IF isRetriableError(error)
       THEN FnThrew(r, error)
       ELSE FnReturned(r, buildErrorResponse(error))

\* OutputParser.parseAndValidateOutput and the return of fn: valid tells
\* whether the content passes outputSchema.parse
ParseAndReturn(r, content, valid) ==
    IF input[r].outputSchema /\ content # <<>> /\ ~valid
    THEN FnCaught(r, ESchemaReport(input[r].reportMarks))
    ELSE /\ FnReturned(r, Response("success", NoMessage, content))
         /\ UNCHANGED attemptErrors

\* the content of a non-streamed completion
Contents == {<<"a">>}

\* prompt: create() resolved with a response; recordRequest(total_tokens),
\* parse, return
UpstreamResponds(r) ==
    /\ pc[r] = "upstream"
    /\ kind[r] = "prompt"
    /\ \E usage \in UsageChoices : recordRequest(usage, r, "actual")
    /\ \E content \in Contents, valid \in BOOLEAN : ParseAndReturn(r, content, valid)
    /\ UNCHANGED <<cfgVars, lastRequestTime, clockVars, kind, input, stream,
                   fullContent, fnCalls, throttlePasses, rlSleeps,
                   upstreamStarts, chunksSeen, lastCall>>

UpstreamRejectsRollback(r) ==
    /\ pc[r] = "upstream"
    /\ \E error \in UpstreamErrors : FnCaught(r, error)
    /\ requestTimestamps' = SubSeq(requestTimestamps, 1, Len(requestTimestamps) - 1)
    /\ tokenTimestamps' = SubSeq(tokenTimestamps, 1, Len(tokenTimestamps) - 1)
    /\ UNCHANGED <<cfgVars, lastRequestTime, clockVars, kind, input,
                   stream, fullContent, fnCalls, throttlePasses, rlSleeps,
                   upstreamStarts, chunksSeen, recordLog, lastCall>>

\* create() rejected
UpstreamRejects(r) ==
    /\ pc[r] = "upstream"
    /\ \E error \in UpstreamErrors : FnCaught(r, error)
    /\ UNCHANGED <<cfgVars, rlVars, lastRequestTime, clockVars, kind, input,
                   stream, fullContent, fnCalls, throttlePasses, rlSleeps,
                   upstreamStarts, chunksSeen, recordLog, lastCall>>

\* promptStream: create() resolved with a stream; processStream starts
StreamOpens(r) ==
    /\ pc[r] = "upstream"
    /\ kind[r] = "stream"
    /\ \E chunks \in StreamChoices : stream' = Set(stream, r, chunks)
    /\ fullContent' = Set(fullContent, r, <<>>)
    /\ pc' = Set(pc, r, "streaming")
    /\ UNCHANGED <<cfgVars, rlVars, lastRequestTime, clockVars, kind, input,
                   attempt, lastError, wakeAt, outcome, result, histVars, lastCall>>

EmitsChunkAlways(delta) == TRUE

\* processStream: `if (delta)`
EmitsChunk(delta) == delta # ""

\* processStream: one iteration of `for await (const chunk of stream)`
StreamChunk(r) ==
    /\ pc[r] = "streaming"
    /\ stream[r] # <<>>
    /\ LET delta == Head(stream[r])
       IN  IF EmitsChunk(delta)
           THEN /\ fullContent' = Set(fullContent, r, Append(fullContent[r], delta))
                /\ chunksSeen' = Set(chunksSeen, r, Append(chunksSeen[r], delta))
           ELSE UNCHANGED <<fullContent, chunksSeen>>
    /\ stream' = Set(stream, r, Tail(stream[r]))
    /\ UNCHANGED <<cfgVars, rlVars, lastRequestTime, clockVars, pc, kind, input,
                   attempt, lastError, wakeAt, outcome, result, fnCalls,
                   fnReturns, failures, handlerArgs, sleeps, throttlePasses,
                   rlSleeps, upstreamStarts, attemptErrors, recordLog, lastCall>>

\* processStream: the stream fails before its end
StreamFails(r) ==
    /\ pc[r] = "streaming"
    /\ stream[r] # <<>>
    /\ \E error \in UpstreamErrors : FnCaught(r, error)
    /\ UNCHANGED <<cfgVars, rlVars, lastRequestTime, clockVars, kind, input,
                   stream, fullContent, fnCalls, throttlePasses, rlSleeps,
                   upstreamStarts, chunksSeen, recordLog, lastCall>>

\* processStream returns; recordRequest(estimateTokens(input)), parse, return
StreamEnds(r) ==
    /\ pc[r] = "streaming"
    /\ stream[r] = <<>>
    /\ recordRequest(estimateTokens(input[r]), r, "actual")
    /\ \E valid \in BOOLEAN : ParseAndReturn(r, fullContent[r], valid)
    /\ UNCHANGED <<cfgVars, lastRequestTime, clockVars, kind, input, stream,
                   fullContent, fnCalls, throttlePasses, rlSleeps,
                   upstreamStarts, chunksSeen, lastCall>>

\* requestDelay values explored
RequestDelayChoices == {Undefined, 2 * THROTTLE_CHECK_INTERVAL_MS}

\* new ThrottleManager(requestDelay, useJitter, jitterFactor) with settings
\* that ConfigValidator.validateThrottleSettings accepts
ThrottleInit ==
    /\ requestDelay \in RequestDelayChoices
    /\ useJitter \in BOOLEAN
    /\ requestDelay = Undefined => useJitter
    /\ jitterFactor = DEFAULT_JITTER_FACTOR
    /\ lastRequestTime = 0

\* new OpenAIClientService(config), on which calls of the given kinds with
\* the given inputs are issued; explored: no limit, a request limit, or a
\* token limit; retry disabled, or enabled with 1..MaxAttemptsClient attempts
ClientInit(Kinds, Inputs) ==
    /\ enabled \in BOOLEAN
    /\ maxAttempts \in MIN_RETRY_ATTEMPTS..MaxAttemptsClient
    /\ ~enabled => maxAttempts = MaxAttemptsClient
    /\ baseDelay = DEFAULT_BASE_RETRY_DELAY_MS
    /\ maxDelay = DEFAULT_MAX_RETRY_DELAY_MS
    /\ RateLimitInit
    /\ requestsPerMinute = Undefined \/ tokensPerMinute = Undefined
    /\ ThrottleInit
    /\ now = StartTime
    /\ ticks = 0
    /\ CallsInit(Kinds)
    /\ input \in [Requests -> Inputs]
    /\ lastCall = [op |-> "none", arg |-> 0, at |-> 0, ret |-> FALSE]

\* One logical call, prompt or promptStream, on a new client; the upstream
\* responds or fails at any time, with any of UpstreamErrors.
OneCall == {1}

Init ==
    /\ ClientInit(ClientKinds, InputChoices)
    /\ \A r \in Requests \ OneCall : kind[r] = kind[1] /\ input[r] = input[1]

Next ==
    \/ Tick
    \/ \E r \in OneCall : prompt(r)
    \/ \E r \in OneCall : FnEnter(r)
    \/ \E r \in OneCall : ThrottleWake(r)
    \/ \E r \in OneCall : RateLimitEnter(r)
    \/ \E r \in OneCall : RateLimitWake(r)
    \/ \E r \in OneCall : Admitted(r)
    \/ \E r \in OneCall : UpstreamResponds(r)
    \/ \E r \in OneCall : UpstreamRejects(r)
    \/ \E r \in OneCall : StreamOpens(r)
    \/ \E r \in OneCall : StreamChunk(r)
    \/ \E r \in OneCall : StreamFails(r)
    \/ \E r \in OneCall : StreamEnds(r)
    \/ \E r \in OneCall : BackoffWake(r)

Spec == Init /\ [][Next]_vars

\* One logical call with an output schema that has a field named "timeout",
\* or one whose reports contain no keyword.
SchemaInputChoices ==
    {[totalChars |-> 6, maxTokens |-> Undefined, outputSchema |-> TRUE,
      reportMarks |-> m] : m \in {{}, {"timeout"}}}

InitSchema ==
    /\ ClientInit(ClientKinds, SchemaInputChoices)
    /\ \A r \in Requests \ OneCall : kind[r] = kind[1] /\ input[r] = input[1]

SpecSchema == InitSchema /\ [][Next]_vars

\* NumReq prompt calls without output schema issued one at a time on a new
\* client, each awaited before the next is issued, against an upstream that
\* always succeeds.
InitSeq == ClientInit({"prompt"}, {i \in InputChoices : ~i.outputSchema})

NextSeq ==
    \/ Tick
    \/ \E r \in Requests : promptAwaited(r)
    \/ \E r \in Requests : FnEnter(r)
    \/ \E r \in Requests : ThrottleWake(r)
    \/ \E r \in Requests : RateLimitEnter(r)
    \/ \E r \in Requests : RateLimitWake(r)
    \/ \E r \in Requests : Admitted(r)
    \/ \E r \in Requests : UpstreamResponds(r)

SpecSeq == InitSeq /\ [][NextSeq]_vars

\* Two such calls, one at a time, on a client with a request limit, against
\* an upstream that responds or fails at any time, with any of
\* UpstreamErrors.
SeqCalls == {1, 2}

InitSeqAny ==
    /\ InitSeq
    /\ requestsPerMinute # Undefined

NextSeqAny ==
    \/ Tick
    \/ \E r \in SeqCalls : promptAwaited(r)
    \/ \E r \in SeqCalls : FnEnter(r)
    \/ \E r \in SeqCalls : ThrottleWake(r)
    \/ \E r \in SeqCalls : RateLimitEnter(r)
    \/ \E r \in SeqCalls : RateLimitWake(r)
    \/ \E r \in SeqCalls : Admitted(r)
    \/ \E r \in SeqCalls : UpstreamResponds(r)
    \/ \E r \in SeqCalls : UpstreamRejects(r)
    \/ \E r \in SeqCalls : BackoffWake(r)

SpecSeqAny == InitSeqAny /\ [][NextSeqAny]_vars

\* Two prompt calls without output schema on a new client with a request
\* limit, each issued at any time, also while the other is in flight,
\* against an upstream that always succeeds.
ConcCalls == {1, 2}

InitConc ==
    /\ ClientInit({"prompt"}, {i \in InputChoices : ~i.outputSchema})
    /\ requestsPerMinute # Undefined

NextConc ==
    \/ Tick
    \/ \E r \in ConcCalls : prompt(r)
    \/ \E r \in ConcCalls : FnEnter(r)
    \/ \E r \in ConcCalls : ThrottleWake(r)
    \/ \E r \in ConcCalls : RateLimitEnter(r)
    \/ \E r \in ConcCalls : RateLimitWake(r)
    \/ \E r \in ConcCalls : Admitted(r)
    \/ \E r \in ConcCalls : UpstreamResponds(r)

SpecConc == InitConc /\ [][NextConc]_vars

----------------------------------------------------------------------------
\* Properties of executeWithRetry (checked under SpecRetry)

AllRetriable(fs) == \A i \in 1..Len(fs) : isRetriableError(fs[i])

\* C2: in every execution of executeWithRetry, whatever the attempt
\* outcomes, the attempt function is invoked at most maxAttempts times.
C2_AtMostMaxAttempts ==
    \A r \in RetryCalls : fnCalls[r] <= maxAttempts

C2_Witness ==
    /\ enabled /\ maxAttempts >= 2
    /\ pc[1] = "done" /\ fnCalls[1] = maxAttempts

\* C3: retry enabled and a retriable failure on every attempt: once the call
\* has completed, the attempt function was invoked exactly maxAttempts times
\* and the error handler was invoked once, with the failure of the last
\* attempt.
C3_Exhaustion ==
    \A r \in RetryCalls :
        (/\ enabled
         /\ pc[r] = "done"
         /\ fnReturns[r] = 0
         /\ AllRetriable(failures[r]))
        => /\ fnCalls[r] = maxAttempts
           /\ Len(failures[r]) = maxAttempts
           /\ handlerArgs[r] = <<failures[r][maxAttempts]>>

C3_Witness ==
    /\ enabled /\ maxAttempts >= 3
    /\ pc[1] = "done" /\ fnReturns[1] = 0
    /\ AllRetriable(failures[1])
    /\ failures[1][1] # failures[1][Len(failures[1])]

\* C4: an attempt that fails with a failure classified non-retriable is the
\* last attempt, and the error handler receives that failure; when it is the
\* first attempt, there was exactly one attempt and no backoff sleep.
C4_TerminalShortCircuit ==
    \A r \in RetryCalls :
        \A i \in 1..Len(failures[r]) :
            ~isRetriableError(failures[r][i])
            => /\ i = Len(failures[r])
               /\ fnCalls[r] = i
               /\ pc[r] = "done"
               /\ handlerArgs[r] = <<failures[r][i]>>
               /\ (i = 1 => sleeps[r] = <<>>)

C4_Witness ==
    /\ enabled /\ maxAttempts >= 3
    /\ failures[1] = <<E400>>
    /\ pc[1] = "done" /\ fnCalls[1] = 1

\* C5: with the retry engine disabled the attempt function is invoked
\* exactly once; any failure, retriable or not, is handed to the error
\* handler at once, and there is never a backoff sleep.
C5_DisabledRetry ==
    ~enabled =>
        \A r \in RetryCalls :
            /\ fnCalls[r] <= 1
            /\ sleeps[r] = <<>>
            /\ pc[r] = "done" => fnCalls[r] = 1
            /\ failures[r] # <<>> =>
                   /\ pc[r] = "done"
                   /\ handlerArgs[r] = failures[r]
                   /\ Len(failures[r]) = 1

C5_Witness ==
    /\ ~enabled /\ maxAttempts >= 2
    /\ failures[1] = <<E503>>
    /\ pc[1] = "done"

\* C6: with retry enabled, while the attempt function has failed k times,
\* k < maxAttempts, each time with a retriable failure, the call has not
\* completed and the error handler has not run; when the attempt function
\* then succeeds, the call returns the success value after exactly k+1
\* invocations and the error handler is never invoked.
C6_FailThenSucceed ==
    \A r \in RetryCalls :
        (enabled /\ AllRetriable(failures[r]) /\ Len(failures[r]) < maxAttempts)
        => /\ handlerArgs[r] = <<>>
           /\ fnReturns[r] = 0 => pc[r] # "done"
           /\ fnReturns[r] = 1 =>
                  /\ pc[r] = "done"
                  /\ outcome[r] = "resolved"
                  /\ result[r] = SuccessValue
                  /\ fnCalls[r] = Len(failures[r]) + 1

C6_Witness ==
    /\ enabled /\ maxAttempts = 3
    /\ failures[1] = <<E503, E503>>
    /\ fnReturns[1] = 1
    /\ fnCalls[1] = 3
    /\ result[1] = SuccessValue

----------------------------------------------------------------------------
\* The RateLimitManager on its own: canMakeRequest and recordRequest called
\* directly, at any times, with any arguments.

DirectCanMakeRequest ==
    /\ \E e \in EstimateChoices :
          lastCall' = [op |-> "canMakeRequest", arg |-> e, at |-> now,
                       ret |-> canMakeRequestValue(e)]
    /\ canMakeRequest
    /\ UNCHANGED <<cfgVars, lastRequestTime, clockVars, callVars, fnCalls,
                   fnReturns, failures, handlerArgs, sleeps, throttlePasses,
                   rlSleeps, upstreamStarts, attemptErrors, chunksSeen, recordLog>>

DirectRecordRequest ==
    /\ Len(recordLog) < MaxRecords
    /\ \E t \in UsageChoices :
          /\ recordRequest(t, 0, "direct")
          /\ lastCall' = [op |-> "recordRequest", arg |-> t, at |-> now,
                          ret |-> FALSE]
    /\ UNCHANGED <<cfgVars, lastRequestTime, clockVars, callVars, fnCalls,
                   fnReturns, failures, handlerArgs, sleeps, throttlePasses,
                   rlSleeps, upstreamStarts, attemptErrors, chunksSeen>>

InitRL ==
    /\ RateLimitInit
    /\ enabled = TRUE
    /\ maxAttempts = MIN_RETRY_ATTEMPTS
    /\ baseDelay = DEFAULT_BASE_RETRY_DELAY_MS
    /\ maxDelay = DEFAULT_MAX_RETRY_DELAY_MS
    /\ requestDelay = Undefined
    /\ useJitter = FALSE
    /\ jitterFactor = 0
    /\ lastRequestTime = 0
    /\ now = StartTime
    /\ ticks = 0
    /\ CallsInit({"raw"})
    /\ input = [r \in Requests |-> NoInput]
    /\ lastCall = [op |-> "none", arg |-> 0, at |-> 0, ret |-> FALSE]

NextRL ==
    \/ Tick
    \/ DirectCanMakeRequest
    \/ DirectRecordRequest

SpecRL == InitRL /\ [][NextRL]_vars

\* C7: requestsPerMinute = R, no token limit, and exactly R recordRequest
\* calls, all made at one time t0: every canMakeRequest call made afterwards
\* reports not admitted while t0 is inside the 60 000 ms window of the call's
\* time, and reports admitted once t0 has aged out of it.
C7_RequestCeiling ==
    (/\ requestsPerMinute # Undefined
     /\ tokensPerMinute = Undefined
     /\ Len(recordLog) = requestsPerMinute
     /\ \A i \in 1..Len(recordLog) : recordLog[i].at = recordLog[1].at
     /\ lastCall.op = "canMakeRequest")
    => (lastCall.ret <=> lastCall.at - recordLog[1].at >= RATE_LIMIT_WINDOW_MS)

C7_Witness ==
    /\ requestsPerMinute = MaxRpm
    /\ tokensPerMinute = Undefined
    /\ Len(recordLog) = requestsPerMinute
    /\ recordLog[1].at = recordLog[2].at
    /\ lastCall.op = "canMakeRequest"
    /\ lastCall.at = recordLog[1].at + RATE_LIMIT_WINDOW_MS
    /\ lastCall.ret

C7_WitnessRefused ==
    /\ requestsPerMinute = MaxRpm
    /\ tokensPerMinute = Undefined
    /\ Len(recordLog) = requestsPerMinute
    /\ recordLog[1].at = recordLog[2].at
    /\ lastCall.op = "canMakeRequest"
    /\ lastCall.at = recordLog[1].at + RATE_LIMIT_WINDOW_MS - THROTTLE_CHECK_INTERVAL_MS
    /\ ~lastCall.ret

----------------------------------------------------------------------------
\* Properties of OpenAIClientService.prompt / promptStream

\* the record calls made on behalf of call r at the given place
RecordsOf(r, place) ==
    {i \in 1..Len(recordLog) : recordLog[i].by = r /\ recordLog[i].place = place}

\* the latest attempt of call r has failed
LastAttemptFailed(r) ==
    /\ fnCalls[r] > 0
    /\ Len(attemptErrors[r]) = fnCalls[r]

\* C1: prompt and promptStream never reject.  Whatever the upstream attempt
\* throws (retriable or terminal, an Error or any other value), with retry
\* enabled or disabled and on any attempt, the call is either going to make
\* another attempt or has resolved with a result whose status is not success
\* and that carries an error message.
C1_NeverRejects ==
    \A r \in OneCall :
        /\ outcome[r] \in {"pending", "resolved"}
        /\ pc[r] = "done" => outcome[r] = "resolved"
        /\ LastAttemptFailed(r) =>
               \/ /\ pc[r] \in {"backoff", "callFn"}
                  /\ enabled
                  /\ fnCalls[r] < maxAttempts
                  /\ isRetriableError(attemptErrors[r][fnCalls[r]])
               \/ /\ pc[r] = "done"
                  /\ outcome[r] = "resolved"
                  /\ result[r].status \notin {"success", "none"}
                  /\ result[r].error # NoMessage

C1_Witness ==
    /\ kind[1] = "stream"
    /\ enabled /\ maxAttempts = MaxAttemptsClient
    /\ attemptErrors[1] = <<E503, SNetwork>>
    /\ pc[1] = "done"
    /\ outcome[1] = "resolved"
    /\ result[1].status = "unknown_error"
    /\ result[1].error = DefaultMessage

\* C8: requestsPerMinute = R, no token limit, an upstream that always
\* succeeds: of the prompt calls issued one after the other within one
\* window, the first R are admitted without any rate-limit wait, and call
\* R + 1 is admitted only once the earliest record has aged out.
C8_SequentialAdmission ==
    (requestsPerMinute # Undefined /\ tokensPerMinute = Undefined)
    => \A r \in Requests :
           /\ (r <= requestsPerMinute /\ now - StartTime < RATE_LIMIT_WINDOW_MS)
              => rlSleeps[r] = 0
           /\ (r = requestsPerMinute + 1 /\ upstreamStarts[r] # <<>>)
              => /\ rlSleeps[r] > 0
                 /\ upstreamStarts[r][1] >= recordLog[1].at + RATE_LIMIT_WINDOW_MS

\* C9: once a call has succeeded at its first attempt, the window holds at
\* most one request event and at most one token entry for it.
C9_NoDoubleCount ==
    \A r \in OneCall :
        (/\ pc[r] = "done"
         /\ result[r].status = "success"
         /\ fnCalls[r] = 1)
        => /\ Len(PrunedRequests(recordLog[Len(recordLog)].at)) <= 1
           /\ Len(PrunedTokens(recordLog[Len(recordLog)].at)) <= 1

\* C10: one call makes one throttle pass and records one provisional
\* estimate, however many times its upstream attempt is retried.
C10_OncePerCall ==
    \A r \in OneCall :
        /\ throttlePasses[r] <= 1
        /\ Cardinality(RecordsOf(r, "estimate")) <= 1

\* the limits admit a request of estimate e, given the two sequences
WithinLimits(reqs, toks, e) ==
    /\ requestsPerMinute # Undefined => Len(reqs) < requestsPerMinute
    /\ (tokensPerMinute # Undefined /\ e > 0)
       => SumTokens(toks) + e <= tokensPerMinute

\* C11: no upstream call is started for a request before, in this order,
\* throttle() has returned for it, waitForRateLimit has admitted its
\* estimate, and recordRequest has recorded that estimate: every step that
\* starts an upstream call is taken from the admitted position and records
\* the estimate, the admitted position is entered only from the throttled
\* position or the poll sleep with the limits admitting the estimate, and
\* the throttled position only from the start of the attempt or the
\* throttle sleep.
C11_OrderBeforeUpstream ==
    [][\A r \in OneCall :
          /\ upstreamStarts'[r] # upstreamStarts[r]
             => /\ pc[r] = "admitted"
                /\ throttlePasses[r] = Len(upstreamStarts[r]) + 1
                /\ recordLog' = Append(recordLog,
                       [at |-> now, tokens |-> estimateTokens(input[r]),
                        by |-> r, place |-> "estimate"])
                /\ requestTimestamps' = Append(requestTimestamps, now)
          /\ (pc'[r] = "admitted" /\ pc[r] # "admitted")
             => /\ pc[r] \in {"throttled", "rlSleep"}
                /\ WithinLimits(requestTimestamps', tokenTimestamps',
                                estimateTokens(input[r]))
                /\ \A ts \in {requestTimestamps'[i] : i \in 1..Len(requestTimestamps')} :
                       ts > now - RATE_LIMIT_WINDOW_MS
          /\ (pc'[r] = "throttled" /\ pc[r] # "throttled")
             => /\ pc[r] \in {"callFn", "throttleSleep"}
                /\ throttlePasses'[r] = throttlePasses[r] + 1
      ]_vars

\* a retried call whose second attempt had to wait for admission and has
\* started its upstream call
C11_Witness ==
    /\ requestsPerMinute = 1
    /\ fnCalls[1] = 2
    /\ rlSleeps[1] > 0
    /\ Len(upstreamStarts[1]) = 2
    /\ pc[1] = "upstream"

\* the upstream calls started so far, as <<call, attempt>>
Starts == UNION {{<<r, i>> : i \in DOMAIN upstreamStarts[r]} : r \in Requests}

\* the upstream calls started in the window that ends at t, t included
StartsWithin(t) ==
    {s \in Starts : /\ upstreamStarts[s[1]][s[2]] > t - RATE_LIMIT_WINDOW_MS
                    /\ upstreamStarts[s[1]][s[2]] <= t}

\* the upstream calls started in the window that ends at t, before t
StartsBefore(t) ==
    {s \in StartsWithin(t) : upstreamStarts[s[1]][s[2]] < t}

\* C12: with two calls in flight on one client, the upstream calls started
\* inside one window can exceed requestsPerMinute (the witness), and they do
\* so only through calls admitted at the same instant: when an upstream call
\* starts, fewer than requestsPerMinute upstream calls were started earlier
\* in its window.
C12_AdmissionRace ==
    \A s \in Starts :
        Cardinality(StartsBefore(upstreamStarts[s[1]][s[2]])) < requestsPerMinute

\* both calls saw canMakeRequest = true before either recorded its request:
\* neither ever slept, the first two records are their two estimates, and
\* the window holds more request events and more upstream calls than the
\* limit
C12_Witness ==
    /\ requestsPerMinute = 1
    /\ requestDelay = Undefined
    /\ rlSleeps[1] = 0 /\ rlSleeps[2] = 0
    /\ Len(recordLog) >= 2
    /\ recordLog[1].place = "estimate" /\ recordLog[2].place = "estimate"
    /\ recordLog[1].by # recordLog[2].by
    /\ Len(PrunedRequests(now)) > requestsPerMinute
    /\ Cardinality(StartsWithin(now)) > requestsPerMinute

\* C13: requestsPerMinute = R and calls issued strictly one at a time: at
\* every moment, and at the moment of every start, the number of upstream
\* calls started within the preceding 60 000 ms is at most R.
C13_SequentialCeiling ==
    requestsPerMinute # Undefined
    => /\ Cardinality(StartsWithin(now)) <= requestsPerMinute
       /\ \A s \in Starts :
              Cardinality(StartsWithin(upstreamStarts[s[1]][s[2]])) <= requestsPerMinute

\* the limit was reached, and a later upstream call started once the window
\* had room again
C13_Witness ==
    /\ requestsPerMinute = MaxRpm
    /\ Cardinality(Starts) > requestsPerMinute
    /\ Cardinality(StartsWithin(now)) = requestsPerMinute
    /\ \E r \in Requests : rlSleeps[r] > 0

\* C14: requestDelay = D > 0, jitter disabled, throttle() calls made one
\* after the other: every return of throttle() comes at least D after the
\* previous return (lastRequestTime holds the time of the previous return).
C14_ThrottleSpacing ==
    [][\A r \in Requests :
          (/\ throttlePasses'[r] # throttlePasses[r]
           /\ requestDelay # Undefined
           /\ ~useJitter)
          => /\ now - lastRequestTime >= requestDelay
             /\ lastRequestTime' = now
      ]_vars

\* the second call's throttle() slept and returned D after the first one's
C14_Witness ==
    /\ requestDelay # Undefined
    /\ ~useJitter
    /\ throttlePasses[1] = 1 /\ throttlePasses[2] = 1
    /\ upstreamStarts[1] = <<StartTime>>
    /\ lastRequestTime = StartTime + requestDelay

----------------------------------------------------------------------------
\* RetryManager.calculateDelay on its own: called with any attempt index and
\* any draws of Math.random(), on a policy validateRetrySettings accepts.

MaxAttemptIndex == 8

\* Math.random() in hundredths
JitterDraws == {0, 1, 50, 99}

BaseDelayChoices == {100, 1000, 10000}
MaxDelayChoices == {1000, 1100, 1250, 10000, 60000}

\* the state of a client on which no request is made
InitPure ==
    /\ InitRL
    /\ requestsPerMinute = Undefined
    /\ tokensPerMinute = Undefined

InitBackoff ==
    /\ baseDelay \in BaseDelayChoices
    /\ maxDelay \in MaxDelayChoices
    /\ maxDelay >= baseDelay
    /\ enabled = TRUE
    /\ maxAttempts = MIN_RETRY_ATTEMPTS
    /\ requestsPerMinute = Undefined
    /\ tokensPerMinute = Undefined
    /\ requestTimestamps = <<>>
    /\ tokenTimestamps = <<>>
    /\ requestDelay = Undefined
    /\ useJitter = FALSE
    /\ jitterFactor = 0
    /\ lastRequestTime = 0
    /\ now = StartTime
    /\ ticks = 0
    /\ CallsInit({"raw"})
    /\ input = [r \in Requests |-> NoInput]
    /\ lastCall = [op |-> "none", arg |-> 0, at |-> 0, ret |-> FALSE]

\* calculateDelay(n) and calculateDelay(n + 1), each with its own draw
DirectCalculateDelay ==
    /\ \E n \in 0..MaxAttemptIndex, u1 \in JitterDraws, u2 \in JitterDraws :
          lastCall' = [op |-> "calculateDelay", arg |-> <<n, u1, u2>>, at |-> now,
                       ret |-> <<calculateDelay(n, u1), calculateDelay(n + 1, u2)>>]
    /\ UNCHANGED <<cfgVars, rlVars, lastRequestTime, clockVars, callVars, histVars>>

NextBackoff == DirectCalculateDelay

SpecBackoff == InitBackoff /\ [][NextBackoff]_vars

C16_Monotonic ==
    (/\ lastCall.op = "calculateDelay"
     /\ baseDelay * Pow2(lastCall.arg[1]) < maxDelay)
    => lastCall.ret[1] <= lastCall.ret[2]

\* C16 as amended: the same for every attempt index n with
\* 1.25 * baseDelay * 2^n <= maxDelay.
C16_MonotonicBelowCap ==
    (/\ lastCall.op = "calculateDelay"
     /\ 125 * baseDelay * Pow2(lastCall.arg[1]) <= 100 * maxDelay)
    => lastCall.ret[1] <= lastCall.ret[2]

\* the largest draw for attempt 0 against the smallest for a capped attempt 1
C16_Witness ==
    /\ baseDelay = 1000
    /\ maxDelay = 1250
    /\ lastCall.op = "calculateDelay"
    /\ lastCall.arg = <<0, 99, 0>>
    /\ lastCall.ret = <<1247, 1250>>

----------------------------------------------------------------------------
\* DelayUtils.calculateDelayWithJitter on its own: called with any delay, any
\* jitter factor in [0, 1] and any draw of Math.random().

DelayChoices == {0, 1, 3, 1000, 2000}

\* jitter factors, in hundredths
FactorChoices == {0, 30, 50, 100}

DirectCalculateDelayWithJitter ==
    /\ \E d \in DelayChoices, on \in BOOLEAN, f \in FactorChoices, u \in JitterDraws :
          lastCall' = [op |-> "calculateDelayWithJitter", arg |-> <<d, on, f, u>>,
                       at |-> now,
                       ret |-> calculateDelayWithJitter10000(d, on, f, u)]
    /\ UNCHANGED <<cfgVars, rlVars, lastRequestTime, clockVars, callVars, histVars>>

NextJitter == DirectCalculateDelayWithJitter

SpecJitter == InitPure /\ [][NextJitter]_vars

\* C17: for every d >= 0 and f in [0, 1], calculateDelayWithJitter(d, true, f)
\* returns a value in [d * (1 - f), d * (1 + f)] and never a negative value;
\* with jitter disabled it returns exactly d.  (The returned value is held in
\* 1/10000 ms, f in hundredths.)
C17_JitterBounds ==
    lastCall.op = "calculateDelayWithJitter"
    => LET d == lastCall.arg[1]
           on == lastCall.arg[2]
           f == lastCall.arg[3]
       IN  IF on
           THEN /\ lastCall.ret >= d * (100 - f) * 100
                /\ lastCall.ret <= d * (100 + f) * 100
                /\ lastCall.ret >= 0
           ELSE lastCall.ret = d * 10000

\* the lower end of the interval is returned
C17_Witness ==
    /\ lastCall.op = "calculateDelayWithJitter"
    /\ lastCall.arg = <<3, TRUE, 30, 0>>
    /\ lastCall.ret = 21000

----------------------------------------------------------------------------
\* The outward error category (checked under SpecRetry and Spec)

\* the classes of failure isRetriableError tells apart
IsRateLimitRejection(error) ==
    \/ getErrorCode(error) = TOO_MANY_REQUESTS
    \/ Includes(getErrorMessage(error), "rate limit")

IsTimeoutFailure(error) ==
    \/ Includes(getErrorMessage(error), "timeout")
    \/ Includes(getErrorMessage(error), "timed out")

IsTransportFailure(error) ==
    \E k \in {"ECONNREFUSED", "ENOTFOUND", "ETIMEDOUT", "ECONNRESET", "network error"} :
        Includes(getErrorMessage(error), k)

\* C18: for every failure that ends a request, a rate-limit rejection yields
\* rate_limit_error, a timeout yields timeout_error, and a transport or
\* network failure yields network_error.
C18_CategoryReuse ==
    \A r \in RetryCalls :
        (pc[r] = "done" /\ handlerArgs[r] # <<>>)
        => LET error == handlerArgs[r][1]
           IN  IF IsRateLimitRejection(error)
               THEN result[r].status = "rate_limit_error"
               ELSE IF IsTimeoutFailure(error)
               THEN result[r].status = "timeout_error"
               ELSE IsTransportFailure(error) => result[r].status = "network_error"

\* C19: every upstream failure with a status 4xx or 5xx other than 429 that
\* ends a request (terminal at once, or retriable with the attempts
\* exhausted) yields a result with status api_error.
C19_ApiError ==
    \A r \in OneCall :
        (/\ pc[r] = "done"
         /\ LastAttemptFailed(r)
         /\ getErrorCode(attemptErrors[r][fnCalls[r]]) \in
                {BAD_REQUEST, UNAUTHORIZED, FORBIDDEN, NOT_FOUND,
                 INTERNAL_SERVER_ERROR, BAD_GATEWAY, SERVICE_UNAVAILABLE,
                 GATEWAY_TIMEOUT})
        => result[r].status = "api_error"

----------------------------------------------------------------------------
\* RetryManager.isRetriableError on its own: called with any thrown value.

StatusChoices ==
    {Undefined, BAD_REQUEST, UNAUTHORIZED, FORBIDDEN, NOT_FOUND,
     TOO_MANY_REQUESTS, INTERNAL_SERVER_ERROR, BAD_GATEWAY,
     SERVICE_UNAVAILABLE, GATEWAY_TIMEOUT}

\* the markers isRetriableError looks for in a message
RetryMarkers ==
    {"rate limit", "429", "timeout", "timed out", "500", "502", "503", "504",
     "ECONNREFUSED", "ENOTFOUND", "ETIMEDOUT", "ECONNRESET", "network error"}

\* keywords a message may contain
MessageChoices ==
    SUBSET {"400", "500", "429", "timeout"} \cup {{k} : k \in RetryMarkers}

\* Error objects with a status or a statusCode and a message, plain objects
\* with a status or a statusCode, and strings
ClassifyErrors ==
    {Err("Error", st, msg) : st \in StatusChoices, msg \in MessageChoices}
    \cup {Err("object", st, {}) : st \in StatusChoices}
    \cup {ErrStatusCode(t, st, {}) : t \in {"Error", "object"}, st \in StatusChoices}
    \cup {Err("string", Undefined, msg) : msg \in MessageChoices}

DirectIsRetriableError ==
    /\ \E error \in ClassifyErrors :
          lastCall' = [op |-> "isRetriableError", arg |-> error, at |-> now,
                       ret |-> isRetriableError(error)]
    /\ UNCHANGED <<cfgVars, rlVars, lastRequestTime, clockVars, callVars, histVars>>

NextClassify == DirectIsRetriableError

SpecClassify == InitPure /\ [][NextClassify]_vars

\* C20: a failure with a numeric status 400, 401, 403 or 404 is classified
\* terminal by isRetriableError, whatever its message.
C20_ClientErrorsTerminal ==
    (/\ lastCall.op = "isRetriableError"
     /\ getErrorCode(lastCall.arg) \in {BAD_REQUEST, UNAUTHORIZED, FORBIDDEN, NOT_FOUND})
    => ~lastCall.ret

----------------------------------------------------------------------------
\* Output validation (checked under SpecSchema)

\* C21: an output-schema mismatch is terminal, whatever its report contains:
\* the attempt that raised it is the last one, and the request returns a
\* result with status validation_error.
C21_SchemaMismatchTerminal ==
    \A r \in OneCall :
        \A i \in 1..Len(attemptErrors[r]) :
            Includes(getErrorMessage(attemptErrors[r][i]), "does not match expected schema")
            => /\ i = Len(attemptErrors[r])
               /\ fnCalls[r] = i
               /\ pc[r] = "done"
               /\ result[r].status = "validation_error"

----------------------------------------------------------------------------
\* Streaming (checked under Spec)

\* C23: during promptStream, onChunk is invoked once for each non-empty
\* content fragment received from the upstream stream, in arrival order, and
\* is not invoked for a fragment with empty content: the step that receives
\* a fragment appends it to the invocations of onChunk when it is non-empty
\* and leaves them unchanged when it is empty, and no other step changes
\* them.
C23_OnChunk ==
    [][\A r \in OneCall :
          LET received == /\ pc[r] = "streaming"
                          /\ stream[r] # <<>>
                          /\ stream'[r] = Tail(stream[r])
          IN  /\ received
                 => chunksSeen'[r] = IF Head(stream[r]) = ""
                                     THEN chunksSeen[r]
                                     ELSE Append(chunksSeen[r], Head(stream[r]))
              /\ chunksSeen'[r] # chunksSeen[r] => received
      ]_vars

\* a stream of three fragments, the second one empty, read to its end
C23_Witness ==
    /\ kind[1] = "stream"
    /\ pc[1] = "done"
    /\ fnCalls[1] = 1
    /\ result[1].status = "success"
    /\ chunksSeen[1] = <<"a", "b">>

----------------------------------------------------------------------------
\* Properties of the RateLimitManager (checked under SpecRL and SpecRLAgain)

\* canMakeRequest called once more, with the estimate of the call just made,
\* no time having passed and nothing having been recorded since
DirectCanMakeRequestAgain ==
    /\ lastCall.op \in {"canMakeRequest", "canMakeRequestAgain"}
    /\ lastCall.at = now
    /\ lastCall' = [op |-> "canMakeRequestAgain", arg |-> lastCall.arg, at |-> now,
                    ret |-> canMakeRequestValue(lastCall.arg)]
    /\ canMakeRequest
    /\ UNCHANGED <<cfgVars, lastRequestTime, clockVars, callVars, fnCalls,
                   fnReturns, failures, handlerArgs, sleeps, throttlePasses,
                   rlSleeps, upstreamStarts, attemptErrors, chunksSeen, recordLog>>

NextRLAgain ==
    \/ Tick
    \/ DirectCanMakeRequest
    \/ DirectRecordRequest
    \/ DirectCanMakeRequestAgain

SpecRLAgain == InitRL /\ [][NextRLAgain]_vars

\* C24: immediately after every canMakeRequest call made at time now, both
\* sequences are what they were before the call without the entries whose
\* timestamp is not > now - 60 000: only such entries remain, and every one
\* of them remains, in the same order.
C24_Pruning ==
    [][(/\ lastCall'.op = "canMakeRequest"
        /\ lastCall'.at = now
        /\ now' = now
        /\ recordLog' = recordLog)
       => /\ requestTimestamps' =
                 SelectSeq(requestTimestamps,
                           LAMBDA ts : ts > now - RATE_LIMIT_WINDOW_MS)
          /\ tokenTimestamps' =
                 SelectSeq(tokenTimestamps,
                           LAMBDA e : e.timestamp > now - RATE_LIMIT_WINDOW_MS)
      ]_vars

\* a call that dropped the first record and kept the second
C24_Witness ==
    /\ lastCall.op = "canMakeRequest"
    /\ lastCall.at = now
    /\ Len(recordLog) = 2
    /\ recordLog[1].tokens > 0 /\ recordLog[2].tokens > 0
    /\ recordLog[1].at <= now - RATE_LIMIT_WINDOW_MS
    /\ recordLog[2].at > now - RATE_LIMIT_WINDOW_MS
    /\ requestTimestamps = <<recordLog[2].at>>
    /\ Len(tokenTimestamps) = 1

\* C25: canMakeRequest(e) returns false exactly when, after pruning, either
\* requestsPerMinute is set and the number of request events is >=
\* requestsPerMinute, or tokensPerMinute is set, e # 0 and the sum of the
\* token entries plus e is > tokensPerMinute; an estimate of 0 is never
\* rejected by the token check.
C25_AdmissionDecision ==
    lastCall.op = "canMakeRequest"
    => LET e == lastCall.arg
           requestCheck == /\ requestsPerMinute # Undefined
                           /\ Len(requestTimestamps) >= requestsPerMinute
           tokenCheck == /\ tokensPerMinute # Undefined
                         /\ e # 0
                         /\ SumTokens(tokenTimestamps) + e > tokensPerMinute
       IN  /\ ~lastCall.ret <=> (requestCheck \/ tokenCheck)
           /\ (e = 0 /\ ~requestCheck) => lastCall.ret

\* an estimate of 0 admitted although the recorded tokens exceed the limit
C25_Witness ==
    /\ lastCall.op = "canMakeRequest"
    /\ lastCall.arg = 0
    /\ tokensPerMinute # Undefined
    /\ SumTokens(tokenTimestamps) > tokensPerMinute
    /\ lastCall.ret

\* C26: two canMakeRequest calls with the same estimate, no elapsed time and
\* no recordRequest between them return the same boolean, and the second
\* leaves both sequences as the first left them.
C26_Idempotence ==
    [][(/\ lastCall'.op = "canMakeRequestAgain"
        /\ lastCall.op \in {"canMakeRequest", "canMakeRequestAgain"})
       => /\ lastCall'.arg = lastCall.arg
          /\ lastCall'.at = lastCall.at
          /\ lastCall'.ret = lastCall.ret
          /\ requestTimestamps' = requestTimestamps
          /\ tokenTimestamps' = tokenTimestamps
      ]_vars

\* a refused call repeated, after a first call that pruned a record
C26_Witness ==
    /\ lastCall.op = "canMakeRequestAgain"
    /\ ~lastCall.ret
    /\ requestTimestamps # <<>>
    /\ Len(recordLog) > Len(requestTimestamps)

\* C27: recordRequest(t) appends exactly one request timestamp, the current
\* time; it appends one token entry (now, t) if and only if t > 0; it
\* removes and changes no entry.
C27_RecordFrame ==
    [][recordLog' # recordLog
       => LET t == recordLog'[Len(recordLog')].tokens
          IN  /\ requestTimestamps' = Append(requestTimestamps, now)
              /\ tokenTimestamps' =
                     IF t > 0
                     THEN Append(tokenTimestamps, [timestamp |-> now, tokens |-> t])
                     ELSE tokenTimestamps
      ]_vars

\* a call with tokens, then a call with t = 0
C27_Witness ==
    /\ lastCall.op = "recordRequest"
    /\ lastCall.arg = 0
    /\ Len(requestTimestamps) = 2
    /\ Len(tokenTimestamps) = 1

----------------------------------------------------------------------------
\* Properties of waitForRateLimit

\* C28: waitForRateLimit(e) resolves only in a step in which canMakeRequest(e)
\* returns true; a check that returns false suspends the caller for 1000 ms,
\* after which the check is made again; the suspended caller leaves the sleep
\* only for a new check, not before the 1000 ms are over; and when the first
\* check returns true the call resolves without sleeping.
C28_WaitLoop ==
    [][\A r \in SeqCalls :
          LET e == estimateTokens(input[r])
              checked == /\ pc[r] \in {"throttled", "rlSleep"}
                         /\ pc[r] = "rlSleep" => now >= wakeAt[r]
                         /\ now' = now
                         /\ requestTimestamps' =
                                SelectSeq(requestTimestamps,
                                    LAMBDA ts : ts > now - RATE_LIMIT_WINDOW_MS)
                         /\ tokenTimestamps' =
                                SelectSeq(tokenTimestamps,
                                    LAMBDA x : x.timestamp > now - RATE_LIMIT_WINDOW_MS)
              resolves == pc'[r] = "admitted" /\ pc[r] # "admitted"
              suspends == /\ pc'[r] = "rlSleep"
                          /\ pc[r] # "rlSleep" \/ rlSleeps'[r] # rlSleeps[r]
          IN  /\ resolves
                 => /\ checked
                    /\ WithinLimits(requestTimestamps', tokenTimestamps', e)
                    /\ rlSleeps'[r] = rlSleeps[r]
              /\ suspends
                 => /\ checked
                    /\ ~WithinLimits(requestTimestamps', tokenTimestamps', e)
                    /\ wakeAt'[r] = now + THROTTLE_CHECK_INTERVAL_MS
                    /\ rlSleeps'[r] = rlSleeps[r] + 1
              /\ (pc[r] \in {"throttled", "rlSleep"} /\ pc'[r] # pc[r])
                 => resolves \/ suspends
              /\ (pc[r] = "rlSleep" /\ pc'[r] = pc[r])
                 => wakeAt'[r] = wakeAt[r] \/ suspends
      ]_vars

\* a call that, in one attempt, was refused twice and then admitted
C28_Witness ==
    /\ pc[2] = "admitted"
    /\ fnCalls[2] = 1
    /\ rlSleeps[2] = 2

\* a call whose first check admitted it
C28_WitnessNoSleep ==
    /\ pc[2] = "admitted"
    /\ rlSleeps[2] = 0
    /\ requestTimestamps # <<>>

----------------------------------------------------------------------------
\* waitForRateLimit on its own: after any history of canMakeRequest and
\* recordRequest calls, waitForRateLimit(e) is called once; its poll timer
\* fires when it is due; at most one recordRequest is made during the wait.

\* tokensPerMinute values explored for the waiter
WaitTokenLimitChoices == {Undefined, 1500, 2500}

\* the estimates the waiter is called with: 1000 and 2000
WaitInputChoices ==
    {[totalChars |-> 0, maxTokens |-> mt, outputSchema |-> FALSE,
      reportMarks |-> {}] : mt \in {Undefined, 2000}}

\* how long after the call the wait is followed
WaitHorizon == RATE_LIMIT_WINDOW_MS + 2 * THROTTLE_CHECK_INTERVAL_MS

InitWait ==
    /\ requestsPerMinute \in {Undefined} \cup 1..MaxRpm
    /\ tokensPerMinute \in WaitTokenLimitChoices
    /\ requestTimestamps = <<>>
    /\ tokenTimestamps = <<>>
    /\ enabled = TRUE
    /\ maxAttempts = MIN_RETRY_ATTEMPTS
    /\ baseDelay = DEFAULT_BASE_RETRY_DELAY_MS
    /\ maxDelay = DEFAULT_MAX_RETRY_DELAY_MS
    /\ requestDelay = Undefined
    /\ useJitter = FALSE
    /\ jitterFactor = 0
    /\ lastRequestTime = 0
    /\ now = StartTime
    /\ ticks = 0
    /\ CallsInit({"raw"})
    /\ input \in [Requests -> WaitInputChoices]
    /\ \A r \in Requests \ OneCall : input[r] = input[1]
    /\ lastCall = [op |-> "none", arg |-> 0, at |-> 0, ret |-> FALSE]

\* the history before the call: up to MaxRpm records, and the time that
\* passes after the first of them
NotYetWaiting == \A r \in OneCall : pc[r] = "idle"

\* waitForRateLimit(e) is called: the first canMakeRequest(e) comes next
DirectWaitForRateLimit(r) ==
    /\ pc[r] = "idle"
    /\ pc' = Set(pc, r, "throttled")
    /\ lastCall' = [op |-> "waitForRateLimit", arg |-> estimateTokens(input[r]),
                    at |-> now, ret |-> FALSE]
    /\ UNCHANGED <<cfgVars, rlVars, lastRequestTime, clockVars, kind, input,
                   attempt, lastError, wakeAt, outcome, result, stream,
                   fullContent, histVars>>

\* the sleep of waitForRateLimit is the next timer due: time advances to it
PollTimerDue(r) ==
    /\ pc[r] = "rlSleep"
    /\ now < wakeAt[r]
    /\ wakeAt[r] <= lastCall.at + WaitHorizon
    /\ now' = wakeAt[r]
    /\ UNCHANGED <<cfgVars, rlVars, lastRequestTime, ticks, callVars, histVars,
                   lastCall>>

\* a recordRequest call made while the waiter sleeps
RecordDuringWait(r) ==
    /\ pc[r] = "rlSleep"
    /\ rlSleeps[r] = 1
    /\ now < wakeAt[r]
    /\ \A i \in DOMAIN recordLog : recordLog[i].place # "during"
    /\ \E t \in UsageChoices : recordRequest(t, 0, "during")
    /\ UNCHANGED <<cfgVars, lastRequestTime, clockVars, callVars, fnCalls,
                   fnReturns, failures, handlerArgs, sleeps, throttlePasses,
                   rlSleeps, upstreamStarts, attemptErrors, chunksSeen, lastCall>>

NextWait ==
    \/ NotYetWaiting /\ recordLog # <<>> /\ Tick
    \/ NotYetWaiting /\ DirectCanMakeRequest
    \/ NotYetWaiting /\ Len(recordLog) < MaxRpm /\ DirectRecordRequest
    \/ \E r \in OneCall : DirectWaitForRateLimit(r)
    \/ \E r \in OneCall : RateLimitEnter(r)
    \/ \E r \in OneCall : RateLimitWake(r)
    \/ \E r \in OneCall : PollTimerDue(r)
    \/ \E r \in OneCall : RecordDuringWait(r)

SpecWait == InitWait /\ [][NextWait]_vars

\* no recordRequest was made since waitForRateLimit was called
Undisturbed == \A i \in DOMAIN recordLog : recordLog[i].place # "during"

\* C29: with tokensPerMinute = T set, waitForRateLimit(e) with e > T never
\* resolves, whatever the window holds and however far time advances; with
\* e <= T, or no token limit, and no recordRequest since the call, the call
\* is pending only at times earlier than one window duration plus one poll
\* interval after it was called.
C29_WaitLiveness ==
    \A r \in OneCall :
        lastCall.op = "waitForRateLimit"
        => LET e == lastCall.arg
               T == tokensPerMinute
           IN  /\ (T # Undefined /\ e > T) => pc[r] # "admitted"
               /\ ((T = Undefined \/ e <= T) /\ Undisturbed /\ pc[r] # "admitted")
                  => now < lastCall.at + RATE_LIMIT_WINDOW_MS
                                       + THROTTLE_CHECK_INTERVAL_MS

\* an estimate above the token limit still waiting on an empty window, more
\* than a window and a poll interval after the call
C29_Witness ==
    /\ lastCall.op = "waitForRateLimit"
    /\ tokensPerMinute # Undefined
    /\ lastCall.arg > tokensPerMinute
    /\ requestTimestamps = <<>> /\ tokenTimestamps = <<>>
    /\ recordLog = <<>>
    /\ pc[1] = "rlSleep"
    /\ now > lastCall.at + RATE_LIMIT_WINDOW_MS + THROTTLE_CHECK_INTERVAL_MS

\* an estimate within the token limit admitted one window duration after the
\* call, at the poll that found the last record pruned
C29_WitnessResolved ==
    /\ lastCall.op = "waitForRateLimit"
    /\ tokensPerMinute # Undefined
    /\ lastCall.arg <= tokensPerMinute
    /\ Undisturbed
    /\ recordLog # <<>>
    /\ pc[1] = "admitted"
    /\ now = lastCall.at + RATE_LIMIT_WINDOW_MS

\* C30: with requestsPerMinute and tokensPerMinute both undefined, every
\* canMakeRequest(e) returns true, for every e and every recorded history,
\* and waitForRateLimit never suspends.
C30_Unlimited ==
    (requestsPerMinute = Undefined /\ tokensPerMinute = Undefined)
    => /\ lastCall.op = "canMakeRequest" => lastCall.ret
       /\ \A r \in OneCall : pc[r] # "rlSleep" /\ rlSleeps[r] = 0

\* the waiter admitted at its first check after MaxRpm records with tokens
C30_Witness ==
    /\ requestsPerMinute = Undefined /\ tokensPerMinute = Undefined
    /\ Len(requestTimestamps) = MaxRpm
    /\ Len(tokenTimestamps) = MaxRpm
    /\ lastCall.op = "waitForRateLimit"
    /\ pc[1] = "admitted"

\* a check with a non-zero estimate passed after MaxRpm records
C30_WitnessCheck ==
    /\ requestsPerMinute = Undefined /\ tokensPerMinute = Undefined
    /\ Len(requestTimestamps) = MaxRpm
    /\ lastCall.op = "canMakeRequest"
    /\ lastCall.arg > 0
    /\ lastCall.ret

----------------------------------------------------------------------------
\* The ThrottleManager on its own: throttle() called directly on one gate,
\* at any times; ThrottleReturns is the caller's continuation after
\* `await throttle()`, which notes the time of the return in lastCall.ret.

\* jitter factors explored for the gate, in hundredths
ThrottleFactorChoices == {DEFAULT_JITTER_FACTOR, 100}

\* new ThrottleManager(requestDelay, useJitter, jitterFactor) with settings
\* that ConfigValidator.validateThrottleSettings accepts
InitThrottle ==
    /\ requestDelay \in RequestDelayChoices
    /\ useJitter \in BOOLEAN
    /\ jitterFactor \in ThrottleFactorChoices
    /\ lastRequestTime = 0
    /\ enabled = TRUE
    /\ maxAttempts = MIN_RETRY_ATTEMPTS
    /\ baseDelay = DEFAULT_BASE_RETRY_DELAY_MS
    /\ maxDelay = DEFAULT_MAX_RETRY_DELAY_MS
    /\ requestsPerMinute = Undefined
    /\ tokensPerMinute = Undefined
    /\ requestTimestamps = <<>>
    /\ tokenTimestamps = <<>>
    /\ now = StartTime
    /\ ticks = 0
    /\ CallsInit({"prompt"})
    /\ input = [r \in Requests |-> NoInput]
    /\ lastCall = [op |-> "throttle", arg |-> 0, at |-> 0, ret |-> <<>>]

\* throttle() is called
DirectThrottle(r) ==
    /\ pc[r] = "idle"
    /\ \A q \in 1..(r - 1) : pc[q] # "idle"
    /\ pc' = Set(pc, r, "callFn")
    /\ UNCHANGED <<cfgVars, rlVars, lastRequestTime, clockVars, kind, input,
                   attempt, lastError, wakeAt, outcome, result, stream,
                   fullContent, histVars, lastCall>>

\* the same call, made after every earlier call has returned
DirectThrottleAwaited(r) ==
    /\ \A q \in 1..(r - 1) : pc[q] = "done"
    /\ DirectThrottle(r)

\* the promise of throttle() has resolved and its caller goes on
ThrottleReturns(r) ==
    /\ pc[r] = "throttled"
    /\ pc' = Set(pc, r, "done")
    /\ lastCall' = [op |-> "throttle", arg |-> r, at |-> now,
                    ret |-> Append(lastCall.ret, now)]
    /\ UNCHANGED <<cfgVars, rlVars, lastRequestTime, clockVars, kind, input,
                   attempt, lastError, wakeAt, outcome, result, stream,
                   fullContent, histVars>>

\* calls made at any time, also while earlier ones are in flight
NextThrottle ==
    \/ Tick
    \/ \E r \in Requests : DirectThrottle(r)
    \/ \E r \in Requests : FnEnter(r)
    \/ \E r \in Requests : ThrottleWake(r)
    \/ \E r \in Requests : ThrottleReturns(r)

SpecThrottle == InitThrottle /\ [][NextThrottle]_vars

\* calls made one after the other
NextThrottleSeq ==
    \/ Tick
    \/ \E r \in Requests : DirectThrottleAwaited(r)
    \/ \E r \in Requests : FnEnter(r)
    \/ \E r \in Requests : ThrottleWake(r)
    \/ \E r \in Requests : ThrottleReturns(r)

SpecThrottleSeq == InitThrottle /\ [][NextThrottleSeq]_vars

\* the times at which throttle() returned, in order
Returns == lastCall.ret

\* C31: with requestDelay = D and jitter disabled, a throttle() call that has
\* to sleep computes its wake-up time from the lastRequestTime it reads and
\* leaves lastRequestTime as it is until it returns, so calls that start
\* before an earlier one has returned sleep until the same moment; each
\* returns no earlier than D after the lastRequestTime it read.  (Reachable,
\* see the witness: two returns less than D apart.)
C31_ThrottleRace ==
    [][\A r \in Requests :
          (requestDelay # Undefined /\ ~useJitter)
          => /\ (pc'[r] = "throttleSleep" /\ pc[r] # "throttleSleep")
                => /\ wakeAt'[r] = lastRequestTime + requestDelay
                   /\ lastRequestTime' = lastRequestTime
             /\ (pc[r] = "throttleSleep" /\ pc'[r] # "throttleSleep")
                => now >= wakeAt[r]
      ]_vars

\* two calls slept at the same time and returned at the same moment
C31_Witness ==
    /\ requestDelay # Undefined
    /\ ~useJitter
    /\ Len(Returns) = 3
    /\ Returns[2] - Returns[1] >= requestDelay
    /\ Returns[3] - Returns[2] < requestDelay
    /\ wakeAt[2] = wakeAt[3]

\* C32: throttle() with requestDelay = D > 0: if the time since
\* lastRequestTime is >= D it returns without sleeping, otherwise it sleeps
\* once, for the jittered remainder (the remainder itself with jitter off,
\* within remainder * (1 -+ jitterFactor) with jitter on); in both cases it
\* sets lastRequestTime to the time at which it returns, and lastRequestTime
\* changes at no other moment and never decreases.
C32_ThrottleStep ==
    [][requestDelay # Undefined
       => /\ \A r \in Requests :
                LET elapsed == now - lastRequestTime
                    remainder == requestDelay - elapsed
                    slept == wakeAt'[r] - now
                IN  /\ (pc[r] = "callFn" /\ pc'[r] # "callFn")
                       => IF elapsed >= requestDelay
                          THEN /\ pc'[r] = "throttled"
                               /\ lastRequestTime' = now
                               /\ wakeAt'[r] = wakeAt[r]
                          ELSE /\ pc'[r] = "throttleSleep"
                               /\ lastRequestTime' = lastRequestTime
                               /\ IF useJitter
                                  THEN /\ 100 * (slept + 1) > remainder * (100 - jitterFactor)
                                       /\ 100 * slept <= remainder * (100 + jitterFactor)
                                  ELSE slept = remainder
                    /\ (pc[r] = "throttleSleep" /\ pc'[r] # "throttleSleep")
                       => /\ pc'[r] = "throttled"
                          /\ now >= wakeAt[r]
                          /\ lastRequestTime' = now
                    /\ pc[r] = "throttled" => pc'[r] \in {"throttled", "done"}
          /\ lastRequestTime' >= lastRequestTime
          /\ lastRequestTime' # lastRequestTime
             => /\ lastRequestTime' = now
                /\ \E r \in Requests : pc[r] # "throttled" /\ pc'[r] = "throttled"
      ]_vars

\* a call whose sleep, lengthened by jitter, ended late: lastRequestTime is
\* the time of its return, not the time the timer was set for
C32_Witness ==
    /\ requestDelay # Undefined
    /\ useJitter
    /\ Len(Returns) = 2
    /\ pc[2] = "done"
    /\ wakeAt[2] > Returns[1] + requestDelay
    /\ Returns[2] > wakeAt[2]
    /\ lastRequestTime = Returns[2]

\* C33: throttle() with no requestDelay configured (undefined or 0) returns
\* at once, without suspending, and leaves lastRequestTime unchanged.
C33_NoThrottle ==
    [][requestDelay = Undefined
       => /\ \A r \in Requests :
                /\ (pc[r] = "callFn" /\ pc'[r] # "callFn")
                   => /\ pc'[r] = "throttled"
                      /\ now' = now
                      /\ wakeAt'[r] = wakeAt[r]
                /\ pc'[r] # "throttleSleep"
          /\ lastRequestTime' = lastRequestTime
      ]_vars

\* three calls returned, the last ones later than the first, and
\* lastRequestTime still has its initial value
C33_Witness ==
    /\ requestDelay = Undefined
    /\ Len(Returns) = NumReq
    /\ Returns[NumReq] > Returns[1]
    /\ \A r \in Requests : pc[r] = "done" /\ wakeAt[r] = 0
    /\ lastRequestTime = 0

\* C34: with requestDelay = D, jitter enabled and jitterFactor = f, two
\* throttle() calls made one after the other return at least D * (1 - f)
\* apart: the timer of a sleeping call is set for no earlier than that, and
\* the returns observed are no closer than that.  (Reachable, see the
\* witnesses: with f = 1 a second call that returns with no delay at all,
\* and with f = 0.3 a timer set for D * (1 - f) after the previous return.)
C34_JitteredSpacing ==
    (requestDelay # Undefined /\ useJitter)
    => /\ \A i \in 1..(Len(Returns) - 1) :
              100 * (Returns[i + 1] - Returns[i])
                  >= requestDelay * (100 - jitterFactor)
       /\ \A r \in Requests :
              pc[r] = "throttleSleep"
              => 100 * (wakeAt[r] - lastRequestTime)
                     >= requestDelay * (100 - jitterFactor)

\* f = 1: the second call, made right after the first returned, returned at
\* the same moment although it had to sleep
C34_Witness ==
    /\ requestDelay # Undefined
    /\ useJitter
    /\ jitterFactor = 100
    /\ Len(Returns) >= 2
    /\ Returns[2] = Returns[1]
    /\ wakeAt[2] = Returns[1]

\* f = 0.3: the second call sleeps until exactly D * (1 - f) after the
\* return of the first
C34_WitnessBelowDelay ==
    /\ requestDelay # Undefined
    /\ useJitter
    /\ jitterFactor = DEFAULT_JITTER_FACTOR
    /\ Len(Returns) = 1
    /\ pc[2] = "throttleSleep"
    /\ 100 * (wakeAt[2] - Returns[1]) = requestDelay * (100 - jitterFactor)

----------------------------------------------------------------------------
\* The shape of the retry loop (checked under SpecRetry)

\* C35: executeWithRetry completes exactly once, with an attempt's success
\* value or with the error handler's result; the handler is invoked at most
\* once and never after a success; one backoff sleep lies between two
\* consecutive attempts, its delay computed from the 0-based index of the
\* attempt that just failed; no sleep follows the last allowed attempt, a
\* terminal failure or a success.
C35_LoopShape ==
    \A r \in RetryCalls :
        LET handled == Len(handlerArgs[r])
            failed == Len(failures[r])
            slept == Len(sleeps[r])
        IN  /\ (pc[r] = "done") <=> (outcome[r] = "resolved")
            /\ fnReturns[r] + handled = IF pc[r] = "done" THEN 1 ELSE 0
            /\ fnReturns[r] = 1 => result[r] = SuccessValue /\ failed = fnCalls[r] - 1
            /\ handled = 1
               => /\ result[r] = buildErrorResponse(handlerArgs[r][1])
                  /\ handlerArgs[r][1] = failures[r][failed]
                  /\ failed = fnCalls[r]
            /\ slept = CASE pc[r] = "idle" -> 0
                         [] pc[r] = "callFn" -> fnCalls[r]
                         [] pc[r] = "fnPending" -> fnCalls[r] - 1
                         [] pc[r] = "backoff" -> fnCalls[r]
                         [] pc[r] = "done" -> fnCalls[r] - 1
            /\ pc[r] = "backoff"
               => /\ failed = fnCalls[r]
                  /\ fnCalls[r] < maxAttempts
                  /\ enabled
                  /\ isRetriableError(failures[r][failed])
            /\ \A i \in 1..slept :
                   LET capped == Min(baseDelay * Pow2(i - 1), maxDelay)
                   IN  /\ sleeps[r][i].index = i - 1
                       /\ sleeps[r][i].delay >= capped
                       /\ 100 * sleeps[r][i].delay < 125 * capped
                       /\ isRetriableError(failures[r][i])

\* three attempts failed: two sleeps, for the indexes 0 and 1, and the
\* handler's result
C35_Witness ==
    /\ pc[1] = "done"
    /\ fnCalls[1] = MaxAttemptsCfg
    /\ Len(handlerArgs[1]) = 1
    /\ Len(sleeps[1]) = MaxAttemptsCfg - 1
    /\ sleeps[1][2].delay > sleeps[1][1].delay

----------------------------------------------------------------------------
\* Provisional usage (checked under Spec)

\* the recordRequest calls made within the window that ends now
InWindowRecords ==
    SelectSeq(recordLog, LAMBDA e : e.at > now - RATE_LIMIT_WINDOW_MS)

\* those of them that were made with tokens
InWindowTokenRecords == SelectSeq(InWindowRecords, LAMBDA e : e.tokens > 0)

\* C36: what recordRequest recorded is never taken back: every request event
\* and every token entry recorded within the last 60 000 ms is still in the
\* window, whether the attempt it was recorded for failed or succeeded, so
\* the estimate of a failed attempt counts against the limits until it ages
\* out.
C36_NoRollback ==
    /\ SelectSeq(requestTimestamps, LAMBDA ts : ts > now - RATE_LIMIT_WINDOW_MS)
          = [i \in 1..Len(InWindowRecords) |-> InWindowRecords[i].at]
    /\ SelectSeq(tokenTimestamps,
                 LAMBDA e : e.timestamp > now - RATE_LIMIT_WINDOW_MS)
          = [i \in 1..Len(InWindowTokenRecords) |->
                [timestamp |-> InWindowTokenRecords[i].at,
                 tokens |-> InWindowTokenRecords[i].tokens]]

\* the only attempt made so far failed, and the retry has to wait because
\* the failed attempt's estimate fills the request limit
C36_Witness ==
    /\ requestsPerMinute = 1
    /\ fnCalls[1] = 2
    /\ Len(failures[1]) = 1
    /\ Len(recordLog) = 1
    /\ recordLog[1].place = "estimate"
    /\ requestTimestamps = <<recordLog[1].at>>
    /\ pc[1] = "rlSleep"

----------------------------------------------------------------------------
\* OpenAIClientService.buildErrorResponse on its own: called with any thrown
\* value; the result is noted together with what isRetriableError says of
\* the same value.

\* keywords a message may contain: one of each category, and a status that
\* buildErrorResponse does not look for
ResponseMessageChoices ==
    SUBSET {"does not match expected schema", "429", "timed out",
            "network error", "API", "503"}

ResponseErrors ==
    {Err("Error", st, msg) : st \in {Undefined, SERVICE_UNAVAILABLE},
                             msg \in ResponseMessageChoices}
    \cup {Err("string", Undefined, msg) : msg \in ResponseMessageChoices}
    \cup {Err("object", st, {}) : st \in {Undefined, SERVICE_UNAVAILABLE}}

DirectBuildErrorResponse ==
    /\ \E error \in ResponseErrors :
          lastCall' = [op |-> "buildErrorResponse", arg |-> error, at |-> now,
                       ret |-> [response |-> buildErrorResponse(error),
                                retriable |-> isRetriableError(error)]]
    /\ UNCHANGED <<cfgVars, rlVars, lastRequestTime, clockVars, callVars, histVars>>

NextErrorResponse == DirectBuildErrorResponse

SpecErrorResponse == InitPure /\ [][NextErrorResponse]_vars

\* C37: buildErrorResponse gives every thrown value exactly one status, never
\* success: for an Error, the first of validation, rate-limit, timeout,
\* network, api whose keywords occur in the message, else unknown, with the
\* message as the error text; for a value that is not an Error, unknown with
\* the default message, whatever isRetriableError says of it.
C37_FirstMatch ==
    lastCall.op = "buildErrorResponse"
    => LET error == lastCall.arg
           response == lastCall.ret.response
           msg == error.marks
           validation == Includes(msg, "does not match expected schema")
           rateLimit == Includes(msg, "rate limit") \/ Includes(msg, "429")
           timeout == Includes(msg, "timeout") \/ Includes(msg, "timed out")
           network == \/ Includes(msg, "network")
                      \/ Includes(msg, "ECONNREFUSED")
                      \/ Includes(msg, "ENOTFOUND")
           api == \E k \in {"API", "400", "401", "403", "500"} : Includes(msg, k)
       IN  /\ response.status \in
                  {"validation_error", "rate_limit_error", "timeout_error",
                   "network_error", "api_error", "unknown_error"}
           /\ response.content = <<>>
           /\ error.type # "Error"
              => response.status = "unknown_error" /\ response.error = DefaultMessage
           /\ error.type = "Error"
              => /\ response.error = msg
                 /\ validation => response.status = "validation_error"
                 /\ (rateLimit /\ ~validation)
                    => response.status = "rate_limit_error"
                 /\ (timeout /\ ~validation /\ ~rateLimit)
                    => response.status = "timeout_error"
                 /\ (network /\ ~validation /\ ~rateLimit /\ ~timeout)
                    => response.status = "network_error"
                 /\ (api /\ ~validation /\ ~rateLimit /\ ~timeout /\ ~network)
                    => response.status = "api_error"
                 /\ ~(validation \/ rateLimit \/ timeout \/ network \/ api)
                    => response.status = "unknown_error"

\* a thrown string that isRetriableError classifies as retriable and
\* buildErrorResponse as unknown
C37_Witness ==
    /\ lastCall.op = "buildErrorResponse"
    /\ lastCall.arg.type = "string"
    /\ lastCall.arg.marks = {"network error"}
    /\ lastCall.ret.retriable
    /\ lastCall.ret.response = Response("unknown_error", DefaultMessage, <<>>)

\* an Error whose message has keywords of every category
C37_WitnessOrder ==
    /\ lastCall.op = "buildErrorResponse"
    /\ lastCall.arg.type = "Error"
    /\ Cardinality(lastCall.arg.marks) = 6
    /\ lastCall.ret.response.status = "validation_error"

\* the same string thrown by the upstream call on every attempt of a prompt
\* call: it was retried, and the result is unknown with the default message
C37_WitnessRetried ==
    /\ pc[1] = "done"
    /\ fnCalls[1] = MaxAttemptsClient
    /\ attemptErrors[1] = <<SNetwork, SNetwork>>
    /\ result[1] = Response("unknown_error", DefaultMessage, <<>>)

----------------------------------------------------------------------------
\* Streaming across retries (checked under Spec)

\* C38: for a promptStream call without output schema that ends in success,
\* the fragments passed to onChunk during the whole call, over all its
\* attempts, are in order the content of the returned result.
C38_StreamedIsContent ==
    \A r \in OneCall :
        (/\ kind[r] = "stream"
         /\ ~input[r].outputSchema
         /\ pc[r] = "done"
         /\ result[r].status = "success")
        => chunksSeen[r] = result[r].content

----------------------------------------------------------------------------
\* Progress of concurrent prompt calls.  Two prompt calls without output
\* schema on a new client whose token limit, when set, is not below an
\* estimate; each is issued at any time or never; the upstream responds,
\* reporting a usage of 1000 tokens, or fails with a 503 or a 400; time is
\* driven by the timers: it advances to the next timer due.  Explored: a
\* client with a rate limit has no throttle, and a client with a request
\* limit makes one attempt per call.

Sleeping == {"throttleSleep", "rlSleep", "backoff"}

\* the times the pending timers are set for
PendingTimers == {wakeAt[r] : r \in {q \in ConcCalls : pc[q] \in Sleeping}}

\* nothing is ready to run and no timer is due: the clock reaches the next
\* timer
NextTimerDue ==
    /\ \A r \in ConcCalls : pc[r] \notin Ready
    /\ PendingTimers # {}
    /\ \A t \in PendingTimers : t > now
    /\ now' = CHOOSE t \in PendingTimers : \A o \in PendingTimers : t <= o
    /\ UNCHANGED <<cfgVars, rlVars, lastRequestTime, ticks, callVars, histVars,
                   lastCall>>

InitLive ==
    /\ ClientInit({"prompt"}, {i \in InputChoices : ~i.outputSchema})
    /\ \A r \in Requests \ ConcCalls : input[r] = input[1]
    /\ tokensPerMinute # Undefined
       => \A r \in ConcCalls : estimateTokens(input[r]) <= tokensPerMinute
    /\ (requestsPerMinute # Undefined \/ tokensPerMinute # Undefined)
       => requestDelay = Undefined
    /\ requestsPerMinute # Undefined
       => ~enabled \/ maxAttempts = MIN_RETRY_ATTEMPTS

\* create() resolves with a response whose usage is the largest explored
LiveUpstreamResponds(r) ==
    /\ UpstreamResponds(r)
    /\ \A t \in UsageChoices : recordLog'[Len(recordLog')].tokens >= t

\* create() rejects with a 503 or a 400; a backoff that follows draws 0
LiveUpstreamRejects(r) ==
    /\ UpstreamRejects(r)
    /\ attemptErrors'[r][Len(attemptErrors'[r])] \in {E503, E400}
    /\ sleeps'[r] # sleeps[r]
       => sleeps'[r][Len(sleeps'[r])].delay = calculateDelay(attempt[r], 0)

NextLive ==
    \/ NextTimerDue
    \/ \E r \in ConcCalls : prompt(r)
    \/ \E r \in ConcCalls : FnEnter(r)
    \/ \E r \in ConcCalls : ThrottleWake(r)
    \/ \E r \in ConcCalls : RateLimitEnter(r)
    \/ \E r \in ConcCalls : RateLimitWake(r)
    \/ \E r \in ConcCalls : Admitted(r)
    \/ \E r \in ConcCalls : LiveUpstreamResponds(r)
    \/ \E r \in ConcCalls : LiveUpstreamRejects(r)
    \/ \E r \in ConcCalls : BackoffWake(r)

\* a continuation that is ready runs, a timer that is due fires, the clock
\* reaches the next timer, and every upstream call returns or fails
FairLive ==
    /\ WF_vars(NextTimerDue)
    /\ \A r \in ConcCalls :
          /\ WF_vars(FnEnter(r))
          /\ WF_vars(ThrottleWake(r))
          /\ WF_vars(RateLimitEnter(r))
          /\ WF_vars(RateLimitWake(r))
          /\ WF_vars(Admitted(r))
          /\ WF_vars(BackoffWake(r))
          /\ WF_vars(LiveUpstreamResponds(r) \/ LiveUpstreamRejects(r))

SpecLive == InitLive /\ [][NextLive]_vars /\ FairLive

\* C39: every prompt call that was issued eventually resolves with a result.
C39_Liveness ==
    \A r \in ConcCalls :
        (pc[r] # "idle")
        ~> (pc[r] = "done" /\ outcome[r] = "resolved" /\ result[r].status # "none")

\* both calls resolved; one of them was retried and had to wait for
\* admission
C39_Witness ==
    /\ \A r \in ConcCalls : pc[r] = "done" /\ outcome[r] = "resolved"
    /\ \E r \in ConcCalls : fnCalls[r] = MaxAttemptsClient /\ rlSleeps[r] > 0

----------------------------------------------------------------------------
\* ConfigValidator.validateRetrySettings on its own: called with any of the
\* optional settings given or not; the constructor of the client hands the
\* returned policy to new RetryManager unchanged.

DEFAULT_ENABLE_RETRY == TRUE
DEFAULT_MAX_RETRY_ATTEMPTS == 3
MAX_RETRY_ATTEMPTS == 10
MIN_BASE_RETRY_DELAY_MS == 100
MAX_BASE_RETRY_DELAY_MS == 10000

\* an optional setting: not given, or a value of its type; a number is NaN
\* or has a value
NotGiven == [kind |-> "undefined"]
NaN == [kind |-> "NaN"]
Num(v) == [kind |-> "number", v |-> v]
Bool(b) == [kind |-> "boolean", v |-> b]

\* x ?? d
Coalesce(x, d) == IF x.kind = "undefined" THEN d ELSE x

\* a < b on numbers: false when either is NaN
LessThan(a, b) == a.kind = "number" /\ b.kind = "number" /\ a.v < b.v

\* a > b on numbers: false when either is NaN
GreaterThan(a, b) == LessThan(b, a)

Thrown(msg) == [thrown |-> TRUE, message |-> msg]

validateRetrySettings(enableRetry, maxRetryAttempts, baseRetryDelay, maxRetryDelay) ==
    LET enabledR == Coalesce(enableRetry, Bool(DEFAULT_ENABLE_RETRY))
        maxAttemptsR == Coalesce(maxRetryAttempts, Num(DEFAULT_MAX_RETRY_ATTEMPTS))
        baseDelayR == Coalesce(baseRetryDelay, Num(DEFAULT_BASE_RETRY_DELAY_MS))
        maxDelayR == Coalesce(maxRetryDelay, Num(DEFAULT_MAX_RETRY_DELAY_MS))
    IN  IF \/ LessThan(maxAttemptsR, Num(MIN_RETRY_ATTEMPTS))
           \/ GreaterThan(maxAttemptsR, Num(MAX_RETRY_ATTEMPTS))
        THEN Thrown("maxRetryAttempts must be between")
        ELSE IF \/ LessThan(baseDelayR, Num(MIN_BASE_RETRY_DELAY_MS))
                \/ GreaterThan(baseDelayR, Num(MAX_BASE_RETRY_DELAY_MS))
        THEN Thrown("baseRetryDelay must be between")
        ELSE IF LessThan(maxDelayR, baseDelayR)
        THEN Thrown("maxRetryDelay must be greater than or equal to baseRetryDelay")
        ELSE [thrown |-> FALSE, enabled |-> enabledR, maxAttempts |-> maxAttemptsR,
              baseDelay |-> baseDelayR, maxDelay |-> maxDelayR]

\* settings explored: not given, NaN, and values at, inside and just outside
\* each range
EnableRetryChoices == {NotGiven, Bool(TRUE), Bool(FALSE)}
MaxRetryAttemptsChoices ==
    {NotGiven, NaN} \cup {Num(v) : v \in {MIN_RETRY_ATTEMPTS - 1, MIN_RETRY_ATTEMPTS,
                                          MAX_RETRY_ATTEMPTS, MAX_RETRY_ATTEMPTS + 1}}
BaseRetryDelayChoices ==
    {NotGiven, NaN} \cup {Num(v) : v \in {MIN_BASE_RETRY_DELAY_MS - 1,
                                          MIN_BASE_RETRY_DELAY_MS,
                                          MAX_BASE_RETRY_DELAY_MS,
                                          MAX_BASE_RETRY_DELAY_MS + 1}}
MaxRetryDelayChoices ==
    {NotGiven, NaN} \cup {Num(v) : v \in {MIN_BASE_RETRY_DELAY_MS - 1,
                                          MIN_BASE_RETRY_DELAY_MS,
                                          MAX_BASE_RETRY_DELAY_MS - 1,
                                          MAX_BASE_RETRY_DELAY_MS,
                                          DEFAULT_MAX_RETRY_DELAY_MS}}

DirectValidateRetrySettings ==
    /\ \E e \in EnableRetryChoices, a \in MaxRetryAttemptsChoices,
          b \in BaseRetryDelayChoices, d \in MaxRetryDelayChoices :
          lastCall' = [op |-> "validateRetrySettings",
                       arg |-> [enableRetry |-> e, maxRetryAttempts |-> a,
                                baseRetryDelay |-> b, maxRetryDelay |-> d],
                       at |-> now,
                       ret |-> validateRetrySettings(e, a, b, d)]
    /\ UNCHANGED <<cfgVars, rlVars, lastRequestTime, clockVars, callVars, histVars>>

NextRetrySettings == DirectValidateRetrySettings

SpecRetrySettings == InitPure /\ [][NextRetrySettings]_vars

\* the settings of the last call after the defaults are filled in
Effective ==
    [maxAttempts |-> Coalesce(lastCall.arg.maxRetryAttempts,
                              Num(DEFAULT_MAX_RETRY_ATTEMPTS)),
     baseDelay |-> Coalesce(lastCall.arg.baseRetryDelay,
                            Num(DEFAULT_BASE_RETRY_DELAY_MS)),
     maxDelay |-> Coalesce(lastCall.arg.maxRetryDelay,
                           Num(DEFAULT_MAX_RETRY_DELAY_MS))]

\* x is a number of [lo, hi]
InRange(x, lo, hi) == x.kind = "number" /\ lo <= x.v /\ x.v <= hi

\* the settings of the last call are the ones the documentation allows
SettingsInRange ==
    /\ InRange(Effective.maxAttempts, MIN_RETRY_ATTEMPTS, MAX_RETRY_ATTEMPTS)
    /\ InRange(Effective.baseDelay, MIN_BASE_RETRY_DELAY_MS, MAX_BASE_RETRY_DELAY_MS)
    /\ Effective.maxDelay.kind = "number"
    /\ Effective.maxDelay.v >= Effective.baseDelay.v

\* C40: validateRetrySettings returns a policy only when maxAttempts is in
\* [1,10], baseDelay is in [100,10000] and maxDelay >= baseDelay, and throws
\* otherwise, whether or not retry is enabled; so the policy a RetryManager
\* is built from has maxAttempts >= 1 and maxDelay >= baseDelay.
C40_RetrySettingsValidated ==
    lastCall.op = "validateRetrySettings"
    => /\ ~lastCall.ret.thrown <=> SettingsInRange
       /\ ~lastCall.ret.thrown
          => /\ InRange(lastCall.ret.maxAttempts, MIN_RETRY_ATTEMPTS,
                        MAX_RETRY_ATTEMPTS)
             /\ lastCall.ret.maxDelay.kind = "number"
             /\ lastCall.ret.baseDelay.kind = "number"
             /\ lastCall.ret.maxDelay.v >= lastCall.ret.baseDelay.v

\* no setting of the last call is NaN
NoNaN ==
    /\ lastCall.arg.maxRetryAttempts # NaN
    /\ lastCall.arg.baseRetryDelay # NaN
    /\ lastCall.arg.maxRetryDelay # NaN

\* when no setting is NaN, a policy is returned exactly for the settings in
\* range, with the defaults filled in and the given values unchanged
C40_NumbersValidated ==
    lastCall.op = "validateRetrySettings" /\ NoNaN
    => /\ ~lastCall.ret.thrown <=> SettingsInRange
       /\ ~lastCall.ret.thrown
          => /\ lastCall.ret.maxAttempts = Effective.maxAttempts
             /\ lastCall.ret.baseDelay = Effective.baseDelay
             /\ lastCall.ret.maxDelay = Effective.maxDelay
             /\ lastCall.ret.maxAttempts.v >= MIN_RETRY_ATTEMPTS
             /\ lastCall.ret.maxDelay.v >= lastCall.ret.baseDelay.v

\* a policy whose maxAttempts is NaN was returned, retry enabled
C40_WitnessNaN ==
    /\ lastCall.op = "validateRetrySettings"
    /\ ~lastCall.ret.thrown
    /\ lastCall.ret.maxAttempts = NaN
    /\ lastCall.ret.enabled = Bool(TRUE)

\* out-of-range settings were refused although retry is disabled
C40_WitnessDisabled ==
    /\ lastCall.op = "validateRetrySettings"
    /\ lastCall.arg.enableRetry = Bool(FALSE)
    /\ lastCall.arg.maxRetryAttempts = Num(MAX_RETRY_ATTEMPTS + 1)
    /\ lastCall.ret.thrown

====
